---- MODULE Spec2Model ----
(***************************************************************************)
(* Temporal Liquidity Book (TLB) and its execution driver.                 *)
(*                                                                         *)
(* Two state machines are developed over one set of variables:             *)
(*   Spec       - one TLB driven through the API of state.rs and of        *)
(*                liquidity_book/mod.rs in any order a caller may choose;  *)
(*   SpecDriver - the Executor of execution_engine/mod.rs polling its      *)
(*                upstream, its feedback channel and its focus set.        *)
(***************************************************************************)
EXTENDS Integers, Sequences, FiniteSets, TLC

VARIABLES
    book,             \* TLB.state of the single book of Spec
    panicked,         \* TRUE once a panic!() aborted the process
    last,             \* the last operation and what it returned
    snap,             \* the Idle state the current preview was opened from
    attempts,         \* number of TLB::attempt calls made so far (Spec)
    multi_book,       \* Executor.multi_book: pair -> TLB.state
    multi_backlog,    \* Executor.multi_backlog: pair -> queue of orders
    index,            \* Executor.index
    cache,            \* Executor.cache
    skip_filter,      \* Executor.skip_filter
    pending_effects,  \* Executor.pending_effects
    focus_set,        \* Executor.focus_set
    upstream,         \* events the upstream stream has still to deliver
    feedback,         \* results waiting in the feedback channel
    in_flight,        \* transactions yielded and not yet answered by the network
    dlast             \* what the last poll of the driver did

tlbVars == <<book, panicked, last, snap, attempts>>
drvVars == <<multi_book, multi_backlog, index, cache, skip_filter,
             pending_effects, focus_set, upstream, feedback, in_flight, dlast>>
vars == <<book, panicked, last, snap, attempts, multi_book, multi_backlog, index,
          cache, skip_filter, pending_effects, focus_set, upstream, feedback,
          in_flight, dlast>>

----------------------------------------------------------------------------
(* Option<T>: None is the empty sequence, Some(x) a sequence of one.       *)

None == <<>>

Some(x) == <<x>>

IsSome(o) == Len(o) = 1

Unwrap(o) == o[1]

----------------------------------------------------------------------------
(* Ratio<u128>: a pair <<numer, denom>> in lowest terms, denom > 0.        *)

RECURSIVE Gcd(_, _)
Gcd(a, b) == IF b = 0 THEN a ELSE Gcd(b, a % b)

Abs(x) == IF x < 0 THEN -x ELSE x

\* Ratio::new: reduces to lowest terms and keeps the denominator positive.
Ratio(n, d) ==
    LET g == Gcd(Abs(n), Abs(d))
        s == IF d < 0 THEN -1 ELSE 1
    IN  <<(s * n) \div g, (s * d) \div g>>

RAdd(p, q) == Ratio(p[1] * q[2] + q[1] * p[2], p[2] * q[2])

RSub(p, q) == Ratio(p[1] * q[2] - q[1] * p[2], p[2] * q[2])

RMul(p, q) == Ratio(p[1] * q[1], p[2] * q[2])

RLt(p, q) == p[1] * q[2] < q[1] * p[2]

RLe(p, q) == p[1] * q[2] <= q[1] * p[2]

\* AbsolutePrice::new
AbsolutePrice(numer, denom) == Ratio(numer, denom)

\* Side<AbsolutePrice>::overlaps
overlaps(side, this, that) ==
    IF side = "Bid" THEN RLe(that, this) ELSE RLe(this, that)

\* Side<AbsolutePrice>::better_than
better_than(side, this, that) ==
    IF side = "Bid" THEN RLe(that, this) ELSE RLe(this, that)

Opposite(side) == IF side = "Bid" THEN "Ask" ELSE "Bid"

----------------------------------------------------------------------------
(* TimeBounds<u64>                                                         *)

NoBounds == [kind |-> "None", lo |-> 0, hi |-> 0]

After(t) == [kind |-> "After", lo |-> t, hi |-> 0]

Until(t) == [kind |-> "Until", lo |-> 0, hi |-> t]

lower_bound(b) == IF b.kind \in {"After", "Between"} THEN Some(b.lo) ELSE None

contain(b, t) ==
    CASE b.kind = "None" -> TRUE
      [] b.kind = "After" -> t >= b.lo
      [] b.kind = "Until" -> t <= b.hi
      [] OTHER -> b.lo <= t /\ t <= b.hi

----------------------------------------------------------------------------
(* Fragments: SimpleOrderPF                                                *)

SimpleOrderPF(source, side, input, price, fee, mmo, cost, bounds) ==
    [source |-> source, side |-> side, input |-> input, accumulated_output |-> 0,
     min_marginal_output |-> mmo, price |-> price, fee |-> fee,
     cost_hint |-> cost, bounds |-> bounds]

\* Ord for SimpleOrderPF: by price, then by source.
FrKeyEq(a, b) == a.price = b.price /\ a.source = b.source

FrLess(a, b) ==
    \/ RLt(a.price, b.price)
    \/ a.price = b.price /\ a.source < b.source

\* a variant for which no fragment is ever at its end of life
with_updated_time_always(fr, time) == Some(fr)

\* OrderState::with_updated_time
with_updated_time(fr, time) == IF contain(fr.bounds, time) THEN Some(fr) ELSE None

\* OrderState::with_applied_swap -> [next, budget_used, fee_used]
with_applied_swap(fr, removed_input, added_output) ==
    LET nxt == [fr EXCEPT !.input = fr.input - removed_input,
                          !.accumulated_output = fr.accumulated_output + added_output]
    IN  [next |-> IF nxt.input > 0 THEN Some(nxt) ELSE None,
         budget_used |-> added_output * fr.fee,
         fee_used |-> fr.fee]

----------------------------------------------------------------------------
(* BTreeSet<Fr>: a set of fragments no two of which compare equal.         *)

BTreeInsert(S, fr) == IF \E e \in S : FrKeyEq(e, fr) THEN S ELSE S \cup {fr}

BTreeRemove(S, fr) == {e \in S : ~FrKeyEq(e, fr)}

BTreeFirst(S) == CHOOSE e \in S : \A o \in S : o = e \/ FrLess(e, o)

\* struct Fragments
FragmentsNew == [asks |-> {}, bids |-> {}]

FragmentsInsert(frs, fr) ==
    IF fr.side = "Bid" THEN [frs EXCEPT !.bids = BTreeInsert(@, fr)]
                       ELSE [frs EXCEPT !.asks = BTreeInsert(@, fr)]

FragmentsRemove(frs, fr) ==
    IF fr.side = "Bid" THEN [frs EXCEPT !.bids = BTreeRemove(@, fr)]
                       ELSE [frs EXCEPT !.asks = BTreeRemove(@, fr)]

RECURSIVE FragmentsInsertAll(_, _)
\* inserts the fragments of a Vec, first to last
FragmentsInsertAll(frs, xs) ==
    IF xs = <<>> THEN frs
    ELSE FragmentsInsertAll(FragmentsInsert(frs, Head(xs)), Tail(xs))

RECURSIVE FragmentsInsertPopped(_, _)
\* "while let Some(fr) = xs.pop() { insert(fr) }": last to first
FragmentsInsertPopped(frs, xs) ==
    IF xs = <<>> THEN frs
    ELSE FragmentsInsertPopped(FragmentsInsert(frs, xs[Len(xs)]), SubSeq(xs, 1, Len(xs) - 1))

RECURSIVE FragmentsRemoveAll(_, _)
FragmentsRemoveAll(frs, xs) ==
    IF xs = <<>> THEN frs
    ELSE FragmentsRemoveAll(FragmentsRemove(frs, Head(xs)), Tail(xs))

----------------------------------------------------------------------------
(* struct Chronology                                                       *)

ChronologyNew(time_now) ==
    [time_now |-> time_now, active |-> FragmentsNew, inactive |-> <<>>]

\* BTreeMap entry(t): insert fr into the bucket of t, creating it when vacant
InactiveInsert(inactive, t, fr) ==
    IF t \in DOMAIN inactive
    THEN [inactive EXCEPT ![t] = FragmentsInsert(@, fr)]
    ELSE [k \in DOMAIN inactive \cup {t} |->
            IF k = t THEN FragmentsInsert(FragmentsNew, fr) ELSE inactive[k]]

MapRemove(m, k) == [x \in DOMAIN m \ {k} |-> m[x]]

MapPut(m, k, v) == [x \in DOMAIN m \cup {k} |-> IF x = k THEN v ELSE m[x]]

Chronology_advance_clocks(c, new_time) ==
    LET new_slot == IF new_time \in DOMAIN c.inactive
                    THEN c.inactive[new_time] ELSE FragmentsNew
        keep(S)  == {fr \in S : IsSome(with_updated_time(fr, new_time))}
        \* the survivors are inserted one by one into the new slot; survivors of
        \* one side never compare equal to each other, so the order is immaterial
        ins(S, T) == T \cup {fr \in S : ~\E e \in T : FrKeyEq(e, fr)}
    IN  [time_now |-> new_time,
         active   |-> [asks |-> ins(keep(c.active.asks), new_slot.asks),
                       bids |-> ins(keep(c.active.bids), new_slot.bids)],
         inactive |-> MapRemove(c.inactive, new_time)]

Chronology_remove_fragment(c, fr) ==
    LET lb == lower_bound(fr.bounds) IN
    IF IsSome(lb) /\ Unwrap(lb) > c.time_now
    THEN IF Unwrap(lb) \in DOMAIN c.inactive
         THEN [c EXCEPT !.inactive[Unwrap(lb)] = FragmentsRemove(@, fr)]
         ELSE c
    ELSE [c EXCEPT !.active = FragmentsRemove(@, fr)]

Chronology_add_fragment(c, fr) ==
    LET lb == lower_bound(fr.bounds) IN
    IF IsSome(lb) /\ Unwrap(lb) > c.time_now
    THEN [c EXCEPT !.inactive = InactiveInsert(@, Unwrap(lb), fr)]
    ELSE [c EXCEPT !.active = FragmentsInsert(@, fr)]

----------------------------------------------------------------------------
(* Pools: SimpleCFMMPool and struct Pools                                  *)

SimpleCFMMPool(pool_id, reserves_base, reserves_quote, fee_num) ==
    [pool_id |-> pool_id, reserves_base |-> reserves_base,
     reserves_quote |-> reserves_quote, fee_num |-> fee_num]

\* Pool::quality: the raw number; PoolQuality orders by it in reverse
quality(p) == p.reserves_quote + p.reserves_base

static_price(p) == AbsolutePrice(p.reserves_quote, p.reserves_base)

\* Pool::swap -> [output, next]
swap(p, side, input) ==
    IF side = "Bid"
    THEN LET base_output == (p.reserves_base * input * p.fee_num)
                            \div (p.reserves_quote * 1000 + input * p.fee_num)
         IN  [output |-> base_output,
              next |-> [p EXCEPT !.reserves_quote = @ + input,
                                 !.reserves_base = @ - base_output]]
    ELSE LET quote_output == (p.reserves_quote * input * p.fee_num)
                             \div (p.reserves_base * 1000 + input * p.fee_num)
         IN  [output |-> quote_output,
              next |-> [p EXCEPT !.reserves_base = @ + input,
                                 !.reserves_quote = @ - quote_output]]

\* Pool::real_price; AbsolutePrice::new panics on a zero denominator, which the
\* callers below avoid by testing RealPriceDefined first
RealPriceDefined(p, side, input) ==
    IF side = "Bid" THEN swap(p, side, input).output > 0 ELSE input > 0

real_price(p, side, input) ==
    IF side = "Bid" THEN AbsolutePrice(input, swap(p, side, input).output)
                    ELSE AbsolutePrice(swap(p, side, input).output, input)

PoolsNew == [pools |-> <<>>, quality_index |-> <<>>]

Pools_update_pool(ps, pool) ==
    LET id  == pool.pool_id
        qi1 == IF id \in DOMAIN ps.pools
               THEN MapRemove(ps.quality_index, quality(ps.pools[id]))
               ELSE ps.quality_index
    IN  [pools |-> MapPut(ps.pools, id, pool),
         quality_index |-> MapPut(qi1, quality(pool), id)]

Pools_remove_pool(ps, pool) ==
    [pools |-> MapRemove(ps.pools, pool.pool_id),
     quality_index |-> MapRemove(ps.quality_index, quality(pool))]

----------------------------------------------------------------------------
(* IdleState, PartialPreviewState, PreviewState and their VersionedState   *)

IdleState(fragments, pools) ==
    [tag |-> "Idle", fragments |-> fragments, pools |-> pools]

IdleStateNew(time_now) == IdleState(ChronologyNew(time_now), PoolsNew)

PartialPreviewStateNew(time_now) ==
    [tag |-> "PartialPreview",
     fragments_preview |-> ChronologyNew(time_now),
     consumed_active_fragments |-> <<>>,
     stashed_active_fragments |-> <<>>,
     pools_intact |-> PoolsNew,
     pools_preview |-> PoolsNew]

PreviewStateNew(time_now) ==
    [tag |-> "Preview",
     fragments_intact |-> ChronologyNew(time_now),
     active_fragments_preview |-> FragmentsNew,
     stashed_active_fragments |-> <<>>,
     inactive_fragments_changeset |-> <<>>,
     pools_intact |-> PoolsNew,
     pools_preview |-> PoolsNew]

\* StashingOption: Unstash, or Stash(xs) with xs a Vec of fragments
Unstash == [stash |-> FALSE, xs |-> <<>>]

Stash(xs) == [stash |-> TRUE, xs |-> xs]

\* Both return [idle, rest]: the IdleState returned and what is left in *self.

PartialPreviewState_commit(st) ==
    [idle |-> IdleState(st.fragments_preview, st.pools_preview),
     rest |-> [st EXCEPT !.fragments_preview = ChronologyNew(0),
                         !.pools_preview = PoolsNew]]

\* a rollback that leaves the consumed fragments out of the restored state
PartialPreviewState_rollback_lossy(st, stashing_opt) ==
    [idle |-> IdleState(st.fragments_preview, st.pools_intact),
     rest |-> st]

\* Vec::append moves the elements out of to_stash, so the loop that fills
\* stashed_this_time runs over an empty vector and the set stays empty.
PartialPreviewState_rollback(st, stashing_opt) ==
    LET stashed_this_time == {}
        stashed1 == IF stashing_opt.stash
                    THEN st.stashed_active_fragments \o stashing_opt.xs
                    ELSE <<>>
        active1  == IF stashing_opt.stash
                    THEN st.fragments_preview.active
                    ELSE FragmentsInsertAll(st.fragments_preview.active,
                                            st.stashed_active_fragments)
        consumed == st.consumed_active_fragments
        back     == SelectSeq(consumed, LAMBDA fr : fr \notin stashed_this_time)
        kept     == SelectSeq(consumed, LAMBDA fr : fr \in stashed_this_time)
        active2  == FragmentsInsertPopped(active1, back)
    IN  [idle |-> IdleState([st.fragments_preview EXCEPT !.active = active2],
                            st.pools_intact),
         rest |-> [st EXCEPT !.fragments_preview = ChronologyNew(0),
                             !.pools_intact = PoolsNew,
                             !.consumed_active_fragments = <<>>,
                             !.stashed_active_fragments = stashed1 \o kept]]

RECURSIVE DrainChangeset(_, _)
\* "while let Some((t, fr)) = changeset.pop()": last to first
DrainChangeset(inactive, cs) ==
    IF cs = <<>> THEN inactive
    ELSE DrainChangeset(InactiveInsert(inactive, cs[Len(cs)][1], cs[Len(cs)][2]),
                        SubSeq(cs, 1, Len(cs) - 1))

\* a commit that forgets the clock of the intact fragments
PreviewState_commit_at_zero(st) ==
    [idle |-> IdleState([time_now |-> 0,
                         active   |-> st.active_fragments_preview,
                         inactive |-> DrainChangeset(st.fragments_intact.inactive,
                                                     st.inactive_fragments_changeset)],
                        st.pools_preview),
     rest |-> st]

PreviewState_commit(st) ==
    LET fragments == [time_now |-> st.fragments_intact.time_now,
                      active   |-> st.active_fragments_preview,
                      inactive |-> DrainChangeset(st.fragments_intact.inactive,
                                                  st.inactive_fragments_changeset)]
    IN  [idle |-> IdleState(fragments, st.pools_preview),
         rest |-> [st EXCEPT !.fragments_intact = ChronologyNew(st.fragments_intact.time_now),
                             !.active_fragments_preview = st.fragments_intact.active,
                             !.inactive_fragments_changeset = <<>>,
                             !.pools_intact = PoolsNew,
                             !.pools_preview = st.pools_intact]]

\* As above, to_stash is empty when the removal loop runs: nothing is removed.
PreviewState_rollback(st, stashing_opt) ==
    LET stashed1 == IF stashing_opt.stash
                    THEN st.stashed_active_fragments \o stashing_opt.xs
                    ELSE <<>>
        active1  == IF stashing_opt.stash
                    THEN FragmentsRemoveAll(st.fragments_intact.active, <<>>)
                    ELSE FragmentsInsertAll(st.fragments_intact.active,
                                            st.stashed_active_fragments)
    IN  [idle |-> IdleState([st.fragments_intact EXCEPT !.active = active1],
                            st.pools_intact),
         rest |-> [st EXCEPT !.fragments_intact = ChronologyNew(st.fragments_intact.time_now),
                             !.pools_intact = PoolsNew,
                             !.stashed_active_fragments = stashed1]]

----------------------------------------------------------------------------
(* enum TLBState                                                           *)

TLBStateNew(time) == IdleStateNew(time)

active_fragments(st) ==
    CASE st.tag = "Idle" -> st.fragments.active
      [] st.tag = "PartialPreview" -> st.fragments_preview.active
      [] OTHER -> st.active_fragments_preview

pools(st) == IF st.tag = "Idle" THEN st.pools ELSE st.pools_preview

current_time(st) ==
    CASE st.tag = "Idle" -> st.fragments.time_now
      [] st.tag = "PartialPreview" -> st.fragments_preview.time_now
      [] OTHER -> st.fragments_intact.time_now

\* the state *self is swapped with by the callers, for self in Idle
move_into_partial_preview(st) ==
    IF st.tag = "Idle"
    THEN [PartialPreviewStateNew(0) EXCEPT !.fragments_preview = st.fragments,
                                           !.pools_intact = st.pools,
                                           !.pools_preview = st.pools]
    ELSE PartialPreviewStateNew(0)

\* a variant that takes the preview of a PartialPreview for the intact state
move_into_preview_aliased(st, target) ==
    CASE st.tag = "Idle" ->
            [target EXCEPT !.fragments_intact = st.fragments,
                           !.pools_intact = st.pools,
                           !.active_fragments_preview = st.fragments.active,
                           !.pools_preview = st.pools]
      [] st.tag = "PartialPreview" ->
            [target EXCEPT !.active_fragments_preview = st.fragments_preview.active,
                           !.pools_preview = st.pools_preview,
                           !.fragments_intact = st.fragments_preview,
                           !.pools_intact = st.pools_preview]
      [] OTHER -> target

move_into_preview(st, target) ==
    CASE st.tag = "Idle" ->
            [target EXCEPT !.fragments_intact = st.fragments,
                           !.pools_intact = st.pools,
                           !.active_fragments_preview = st.fragments.active,
                           !.pools_preview = st.pools]
      [] st.tag = "PartialPreview" ->
            [target EXCEPT !.active_fragments_preview = st.fragments_preview.active,
                           !.pools_preview = st.pools_preview,
                           !.fragments_intact =
                               [st.fragments_preview EXCEPT !.active =
                                   FragmentsInsertPopped(@, st.consumed_active_fragments)],
                           !.pools_intact = st.pools_intact]
      [] OTHER -> target

AddIntoPreview(preview_st, fr, time) ==
    LET lb == lower_bound(fr.bounds) IN
    IF IsSome(lb) /\ Unwrap(lb) > time
    THEN [preview_st EXCEPT !.inactive_fragments_changeset =
                                Append(@, <<Unwrap(lb), fr>>)]
    ELSE [preview_st EXCEPT !.active_fragments_preview = FragmentsInsert(@, fr)]

pre_add_fragment(st, fr) ==
    LET time == current_time(st) IN
    IF st.tag \in {"Idle", "PartialPreview"}
    THEN AddIntoPreview(move_into_preview(st, PreviewStateNew(time)), fr, time)
    ELSE AddIntoPreview(st, fr, time)

pre_add_pool(st, pool) ==
    IF st.tag \in {"Idle", "PartialPreview"}
    THEN [move_into_preview(st, PreviewStateNew(0)) EXCEPT
             !.pools_preview = Pools_update_pool(@, pool)]
    ELSE [st EXCEPT !.pools_preview = Pools_update_pool(@, pool)]

\* pick_active_fr, given what f did to the active fragments of *self:
\* r = [res |-> Option<Fr>, frs |-> the fragments f left]
pick_active_fr(st, r) ==
    CASE st.tag = "Idle" ->
            IF IsSome(r.res)
            THEN [move_into_partial_preview([st EXCEPT !.fragments.active = r.frs])
                     EXCEPT !.consumed_active_fragments = <<Unwrap(r.res)>>]
            ELSE [st EXCEPT !.fragments.active = r.frs]
      [] st.tag = "PartialPreview" ->
            [st EXCEPT !.fragments_preview.active = r.frs,
                       !.consumed_active_fragments =
                           IF IsSome(r.res) THEN Append(@, Unwrap(r.res)) ELSE @]
      [] OTHER -> [st EXCEPT !.active_fragments_preview = r.frs]

\* pick_pool, given what f did to the pools preview: r = [res, pools]
pick_pool(st, r) ==
    IF st.tag = "Idle"
    THEN [move_into_partial_preview(st) EXCEPT !.pools_preview = r.pools]
    ELSE [st EXCEPT !.pools_preview = r.pools]

\* fn pick_best_fr_either(active_frontier, index_price) -> [res, frs]
\* Weighted::weight is the fee of the fragment.
weight(fr) == fr.fee

pick_best_fr_either(frs, index_price) ==
    CASE frs.bids # {} /\ frs.asks # {} ->
            LET bid == BTreeFirst(frs.bids)
                ask == BTreeFirst(frs.asks)
                bid_is_underpriced ==
                    IsSome(index_price) /\ RLt(bid.price, Unwrap(index_price))
                ask_is_overpriced ==
                    IsSome(index_price) /\ RLt(Unwrap(index_price), ask.price)
                bid_is_heavier == weight(bid) >= weight(ask)
            IN  IF (bid_is_heavier /\ ~bid_is_underpriced) \/ ask_is_overpriced
                THEN [res |-> Some(bid), frs |-> [frs EXCEPT !.bids = @ \ {bid}]]
                ELSE [res |-> Some(ask), frs |-> [frs EXCEPT !.asks = @ \ {ask}]]
      [] frs.bids # {} ->
            [res |-> Some(BTreeFirst(frs.bids)),
             frs |-> [frs EXCEPT !.bids = @ \ {BTreeFirst(frs.bids)}]]
      [] frs.asks # {} ->
            [res |-> Some(BTreeFirst(frs.asks)),
             frs |-> [frs EXCEPT !.asks = @ \ {BTreeFirst(frs.asks)}]]
      [] OTHER -> [res |-> None, frs |-> frs]

\* fn try_pick_fr(active_frontier, side, test) -> [res, frs];
\* accept is the set of fragments test answers true for
try_pick_fr(frs, side, accept) ==
    LET S == IF side = "Bid" THEN frs.bids ELSE frs.asks IN
    IF S # {} /\ BTreeFirst(S) \in accept
    THEN [res |-> Some(BTreeFirst(S)),
          frs |-> IF side = "Bid" THEN [frs EXCEPT !.bids = @ \ {BTreeFirst(S)}]
                                  ELSE [frs EXCEPT !.asks = @ \ {BTreeFirst(S)}]]
    ELSE [res |-> None, frs |-> frs]

\* the closure of try_pick_pool: the first pool, in the order of the quality
\* index (PoolQuality reverses the order of the raw number), that passes test;
\* it is removed from the primary map only
try_pick_pool_in(ps, accept) ==
    LET hits == {q \in DOMAIN ps.quality_index :
                    /\ ps.quality_index[q] \in DOMAIN ps.pools
                    /\ ps.pools[ps.quality_index[q]] \in accept}
    IN  IF hits = {} THEN [res |-> None, pools |-> ps]
        ELSE LET q  == CHOOSE x \in hits : \A y \in hits : y <= x
                 id == ps.quality_index[q]
             IN  [res |-> Some(ps.pools[id]),
                  pools |-> [ps EXCEPT !.pools = MapRemove(@, id)]]

take_pool_in(ps, pid) ==
    IF pid \in DOMAIN ps.pools
    THEN [res |-> Some(ps.pools[pid]), pools |-> [ps EXCEPT !.pools = MapRemove(@, pid)]]
    ELSE [res |-> None, pools |-> ps]

best_fr_price(st, side) ==
    LET S == IF side = "Bid" THEN active_fragments(st).bids
                             ELSE active_fragments(st).asks
    IN  IF S = {} THEN None ELSE Some(BTreeFirst(S).price)

----------------------------------------------------------------------------
(* Recipes (recipe.rs)                                                     *)

Fill(target_fr, next_fr, removed_input, added_output, budget_used, fee_used) ==
    [kind |-> "Fill", target_fr |-> target_fr, next_fr |-> next_fr,
     removed_input |-> removed_input, added_output |-> added_output,
     budget_used |-> budget_used, fee_used |-> fee_used]

\* Fill::new
Fill_new(target, transition, added_output, budget_used, fee_used) ==
    Fill(target, transition, target.input, added_output, budget_used, fee_used)

Swap(target, transition, side, input, output) ==
    [kind |-> "Swap", target |-> target, transition |-> transition,
     side |-> side, input |-> input, output |-> output]

PartialFill(target, remaining_input, accumulated_output) ==
    [target |-> target, remaining_input |-> remaining_input,
     accumulated_output |-> accumulated_output]

PartialFill_empty(fr) == PartialFill(fr, fr.input, 0)

\* PartialFill::filled_unsafe
filled_unsafe(pf) ==
    LET r == with_applied_swap(pf.target, pf.target.input, pf.accumulated_output)
    IN  Fill(pf.target, r.next, pf.target.input, pf.accumulated_output,
             r.budget_used, r.fee_used)

\* impl From<PartialFill<Fr>> for Fill<Fr>
Fill_from(pf) ==
    LET removed == pf.target.input - pf.remaining_input
        r == with_applied_swap(pf.target, removed, pf.accumulated_output)
    IN  Fill(pf.target, r.next, removed, pf.accumulated_output, r.budget_used, r.fee_used)

IntermediateRecipe_new(fr) ==
    [terminal |-> <<>>, remainder |-> Some(PartialFill_empty(fr))]

is_complete(rec) ==
    Len(rec.terminal) >= 2 \/ (Len(rec.terminal) > 0 /\ IsSome(rec.remainder))

\* a validation that finds every fragment satisfied
unsatisfied_fragments_unchecked(rec) == <<>>

unsatisfied_fragments(rec) ==
    LET bad(x) == x.kind = "Fill" /\ x.added_output < x.target_fr.min_marginal_output
        not_ok_terminal == SelectSeq(rec.terminal, bad)
        not_ok_rem ==
            IF /\ IsSome(rec.remainder)
               /\ Unwrap(rec.remainder).accumulated_output
                    < Unwrap(rec.remainder).target.min_marginal_output
            THEN <<Unwrap(rec.remainder).target>> ELSE <<>>
    IN  [i \in 1..Len(not_ok_terminal) |-> not_ok_terminal[i].target_fr] \o not_ok_rem

\* ExecutionRecipe::try_from -> [ok, instructions, err]; err is the Option<Vec<Fr>>
ExecutionRecipe_try_from(rec) ==
    IF is_complete(rec)
    THEN IF unsatisfied_fragments(rec) = <<>>
         THEN [ok |-> TRUE,
               instructions |-> IF IsSome(rec.remainder)
                                THEN Append(rec.terminal, Fill_from(Unwrap(rec.remainder)))
                                ELSE rec.terminal,
               err |-> None]
         ELSE [ok |-> FALSE, instructions |-> <<>>, err |-> Some(unsatisfied_fragments(rec))]
    ELSE [ok |-> FALSE, instructions |-> <<>>, err |-> None]

----------------------------------------------------------------------------
(* Price settlement and fills (liquidity_book/mod.rs)                      *)

MAX_BIAS_PERCENT == 3

\* a variant that lets every value through
truncated_open(value, low, high) == value

truncated(value, low, high) ==
    IF RLe(low, value) /\ RLe(value, high) THEN value
    ELSE IF RLt(value, low) THEN low ELSE high

\* integer division of a by b > 0 rounding toward zero, as in Rust
DivTrunc(a, b) == IF a >= 0 THEN a \div b ELSE -((-a) \div b)

\* a bias of the opposite sign
bias_percent_reversed(fee_ask, fee_bid) ==
    IF fee_ask < fee_bid
    THEN DivTrunc(fee_ask * 100, fee_bid)
    ELSE DivTrunc((-fee_bid) * 100, fee_ask)

\* the bias_percent of settle_price
bias_percent(fee_ask, fee_bid) ==
    IF fee_ask < fee_bid
    THEN DivTrunc((-fee_ask) * 100, fee_bid)
    ELSE DivTrunc(fee_bid * 100, fee_ask)

\* settle_price divides by the larger fee: it panics when both fees are zero
settle_price_panics(ask, bid) == ~(ask.fee < bid.fee) /\ ask.fee = 0

settle_price(ask, bid, index_price) ==
    LET price_ask_rat == ask.price
        price_bid_rat == bid.price
        d == RSub(price_bid_rat, price_ask_rat)
        pivotal_price == IF IsSome(index_price)
                         THEN truncated(Unwrap(index_price), price_ask_rat, price_bid_rat)
                         ELSE RAdd(price_ask_rat, Ratio(d[1], d[2] * 2))
        fee_ask == ask.fee
        fee_bid == bid.fee
        max_deviation == RMul(pivotal_price, Ratio(MAX_BIAS_PERCENT, 100))
        deviation == RMul(max_deviation, Ratio(bias_percent(fee_ask, fee_bid), 100))
        corrected_price == RAdd(pivotal_price, deviation)
    IN  truncated(corrected_price, price_ask_rat, price_bid_rat)

\* a variant that converts a bid's input the way it converts an ask's
linear_output_one_way(input, side, price) == (input * price[1]) \div price[2]

\* linear_output divides by the numerator of the price on the Bid side
linear_output(input, side, price) ==
    IF side = "Bid" THEN (input * price[2]) \div price[1]
                    ELSE (input * price[1]) \div price[2]

\* the (ask, bid) the matchmaker of attempt settles, for lhs a PartialFill
MatchAsk(lhs, rhs) == IF lhs.target.side = "Bid" THEN rhs ELSE lhs.target

MatchBid(lhs, rhs) == IF lhs.target.side = "Bid" THEN lhs.target ELSE rhs

fill_from_fragment_panics(lhs, rhs, index_price) ==
    \/ settle_price_panics(MatchAsk(lhs, rhs), MatchBid(lhs, rhs))
    \/ settle_price(MatchAsk(lhs, rhs), MatchBid(lhs, rhs), index_price)[1] = 0

\* fill_from_fragment -> [term_fill_lt, rt_terminal, fill_rt]: fill_rt is a Fill
\* when rt_terminal (Either::Left) and a PartialFill otherwise (Either::Right)
fill_from_fragment(lhs, rhs, index_price) ==
    LET price == settle_price(MatchAsk(lhs, rhs), MatchBid(lhs, rhs), index_price) IN
    IF lhs.target.side = "Bid"
    THEN LET bid == lhs
             ask == rhs
             demand_base == linear_output(bid.remaining_input, "Bid", price)
             supply_base == ask.input
             quote_executed == linear_output(supply_base, "Ask", price)
             a == with_applied_swap(ask, ask.input, quote_executed)
         IN  CASE supply_base > demand_base ->
                    [term_fill_lt |-> filled_unsafe(
                        [bid EXCEPT !.accumulated_output = @ + demand_base]),
                     rt_terminal |-> FALSE,
                     fill_rt |-> PartialFill(ask, supply_base - demand_base,
                                             bid.remaining_input)]
               [] supply_base < demand_base ->
                    [term_fill_lt |-> Fill_new(ask, a.next, quote_executed,
                                               a.budget_used, a.fee_used),
                     rt_terminal |-> FALSE,
                     fill_rt |-> [bid EXCEPT !.remaining_input = @ - quote_executed,
                                             !.accumulated_output = @ + supply_base]]
               [] OTHER ->
                    [term_fill_lt |-> filled_unsafe(
                        [bid EXCEPT !.accumulated_output = @ + demand_base]),
                     rt_terminal |-> TRUE,
                     fill_rt |-> Fill_new(ask, a.next, quote_executed,
                                          a.budget_used, a.fee_used)]
    ELSE LET ask == lhs
             bid == rhs
             demand_base == linear_output(bid.input, "Bid", price)
             supply_base == ask.remaining_input
             quote_executed == linear_output(supply_base, "Ask", price)
             b == with_applied_swap(bid, bid.input, demand_base)
         IN  CASE supply_base > demand_base ->
                    [term_fill_lt |-> Fill_new(bid, b.next, demand_base,
                                               b.budget_used, b.fee_used),
                     rt_terminal |-> FALSE,
                     fill_rt |-> [ask EXCEPT !.remaining_input = @ - demand_base,
                                             !.accumulated_output = @ + bid.input]]
               [] supply_base < demand_base ->
                    [term_fill_lt |-> filled_unsafe(
                        [ask EXCEPT !.accumulated_output = @ + quote_executed]),
                     rt_terminal |-> FALSE,
                     fill_rt |-> PartialFill(bid, bid.input - quote_executed, supply_base)]
               [] OTHER ->
                    [term_fill_lt |-> filled_unsafe(
                        [ask EXCEPT !.accumulated_output = @ + bid.input]),
                     rt_terminal |-> TRUE,
                     fill_rt |-> Fill_new(bid, b.next, demand_base,
                                          b.budget_used, b.fee_used)]

\* fill_from_pool -> [term_fill, swap]
\* a variant that swaps the whole input of the target
fill_from_pool_whole(lhs, pool) ==
    LET side == lhs.target.side
        r == swap(pool, side, lhs.target.input)
    IN  [term_fill |-> filled_unsafe([lhs EXCEPT !.accumulated_output = @ + r.output]),
         swap |-> Swap(pool, r.next, side, lhs.target.input, r.output)]

fill_from_pool(lhs, pool) ==
    LET side == lhs.target.side
        r == swap(pool, side, lhs.remaining_input)
    IN  [term_fill |-> filled_unsafe([lhs EXCEPT !.accumulated_output = @ + r.output]),
         swap |-> Swap(pool, r.next, side, lhs.remaining_input, r.output)]

----------------------------------------------------------------------------
(* struct TLB (liquidity_book/mod.rs)                                      *)

\* a variant without a threshold
safe_threshold_none(cap) == 0

safe_threshold(cap) == cap.hard - cap.soft

\* TLB::on_transition
on_transition(st, tx) == IF IsSome(tx) THEN pre_add_fragment(st, Unwrap(tx)) ELSE st

\* TLBFeedback::on_recipe_succeeded
on_recipe_succeeded(st) ==
    CASE st.tag = "Idle" -> st
      [] st.tag = "PartialPreview" -> PartialPreviewState_commit(st).idle
      [] OTHER -> PreviewState_commit(st).idle

\* a variant that leaves the preview in place
on_recipe_failed_kept(st, stashing_opt) == st

\* TLBFeedback::on_recipe_failed
on_recipe_failed(st, stashing_opt) ==
    CASE st.tag = "Idle" -> st
      [] st.tag = "PartialPreview" -> PartialPreviewState_rollback(st, stashing_opt).idle
      [] OTHER -> PreviewState_rollback(st, stashing_opt).idle

\* best_pool_price: max_by_key over HashMap::values() under PoolQuality's reversed
\* order, i.e. a pool of the least raw quality; among several of them the
\* iteration order of the HashMap decides: tie is the pool id it puts last
best_pool_price(st, tie) ==
    LET ps == pools(st).pools
        best == {id \in DOMAIN ps : \A o \in DOMAIN ps : quality(ps[id]) <= quality(ps[o])}
    IN  IF best = {} THEN None
        ELSE IF tie \in best THEN Some(static_price(ps[tie]))
        ELSE Some(static_price(ps[CHOOSE id \in best : TRUE]))

RECURSIVE TestPools(_, _, _)
\* try_pick_pool with the test of attempt: walks the quality index in its order
\* over the keys left; -> [res, pools, panic]. The test computes real_price,
\* which panics on a swap of zero output (AbsolutePrice::new with denom 0).
TestPools(ps, left, rem) ==
    IF left = {} THEN [res |-> None, pools |-> ps, panic |-> FALSE]
    ELSE LET q  == CHOOSE x \in left : \A y \in left : y <= x
             id == ps.quality_index[q]
             side == rem.target.side
         IN  IF id \notin DOMAIN ps.pools THEN TestPools(ps, left \ {q}, rem)
             ELSE IF ~RealPriceDefined(ps.pools[id], side, rem.remaining_input)
             THEN [res |-> None, pools |-> ps, panic |-> TRUE]
             ELSE IF overlaps(side, rem.target.price,
                              real_price(ps.pools[id], side, rem.remaining_input))
             THEN [res |-> Some(ps.pools[id]),
                   pools |-> [ps EXCEPT !.pools = MapRemove(@, id)],
                   panic |-> FALSE]
             ELSE TestPools(ps, left \ {q}, rem)

\* F applied to the value of v, which is computed once
Let1(v, F(_)) == CHOOSE y \in {F(x) : x \in {v}} : TRUE

\* what one pass of the loop of attempt did: kind is "fragment" (a counter-
\* fragment consumed), "rejected" (the best counter-fragment failed the test of
\* try_pick_fr) or "pool" (a pool picked); units is execution_units_left and
\* rem the remainder at that pass
Pass(kind, units, rem, with) ==
    [kind |-> kind, units |-> units, rem |-> rem, with |-> with]

RECURSIVE AttemptLoop(_, _, _, _, _)
\* the loop of TLB::attempt -> [st, recipe, panic, log]; log lists its passes
AttemptLoop(st, recipe, execution_units_left, cap, tie) ==
    IF ~IsSome(recipe.remainder)
    THEN [st |-> st, recipe |-> recipe, panic |-> FALSE, log |-> <<>>]
    ELSE
    LET rem == Unwrap(recipe.remainder)
        rem_side == rem.target.side
        price_fragments == best_fr_price(st, Opposite(rem_side))
        price_in_pools == best_pool_price(st, tie)
        stop == [st |-> st, recipe |-> recipe, panic |-> FALSE, log |-> <<>>]
        \* the arm of a picked opposite fragment
        Matched(st1, opposite_fr) ==
            IF fill_from_fragment_panics(rem, opposite_fr, price_in_pools)
            THEN [st |-> st1, recipe |-> recipe, panic |-> TRUE, log |-> <<>>]
            ELSE Let1(fill_from_fragment(rem, opposite_fr, price_in_pools), LAMBDA f :
                 IF f.rt_terminal
                 THEN [st |-> on_transition(on_transition(st1, f.term_fill_lt.next_fr),
                                            f.fill_rt.next_fr),
                       recipe |-> [terminal |-> recipe.terminal \o <<f.term_fill_lt, f.fill_rt>>,
                                   remainder |-> None],
                       panic |-> FALSE,
                       log |-> <<Pass("fragment", execution_units_left, rem, opposite_fr)>>]
                 ELSE Let1(on_transition(st1, f.term_fill_lt.next_fr), LAMBDA st2 :
                      Let1(AttemptLoop(st2,
                                  [terminal |-> Append(recipe.terminal, f.term_fill_lt),
                                   remainder |-> Some(f.fill_rt)],
                                  execution_units_left - opposite_fr.cost_hint, cap, tie),
                           LAMBDA l :
                      [l EXCEPT !.log = <<Pass("fragment", execution_units_left, rem,
                                               opposite_fr)>> \o @])))
        \* the arm of a picked pool
        Swapped(st1, pool) ==
            Let1(fill_from_pool(rem, pool), LAMBDA f :
                 [st |-> pre_add_pool(on_transition(st1, f.term_fill.next_fr),
                                      f.swap.transition),
                  recipe |-> [terminal |-> recipe.terminal \o <<f.swap, f.term_fill>>,
                              remainder |-> None],
                  panic |-> FALSE,
                  log |-> <<Pass("pool", execution_units_left, rem, pool)>>])
    IN
    IF /\ IsSome(price_fragments)
       /\ (IsSome(price_in_pools) =>
              better_than(Opposite(rem_side), Unwrap(price_fragments), Unwrap(price_in_pools)))
       /\ execution_units_left > safe_threshold(cap)
    THEN
        LET af == active_fragments(st)
            S  == IF rem_side = "Bid" THEN af.asks ELSE af.bids
            accept == {fr \in S : /\ overlaps(rem_side, rem.target.price, fr.price)
                                  /\ fr.cost_hint <= execution_units_left}
        IN  Let1(try_pick_fr(af, Opposite(rem_side), accept), LAMBDA r :
            Let1(pick_active_fr(st, r), LAMBDA st1 :
                 IF ~IsSome(r.res)
                 THEN [stop EXCEPT !.st = st1,
                                   !.log = <<Pass("rejected", execution_units_left, rem,
                                                  BTreeFirst(S))>>]
                 ELSE Matched(st1, Unwrap(r.res))))
    ELSE IF IsSome(price_in_pools) /\ execution_units_left > 0
    THEN
        Let1(TestPools(pools(st), DOMAIN pools(st).quality_index, rem), LAMBDA r :
        Let1(pick_pool(st, r), LAMBDA st1 :
             IF r.panic THEN [st |-> st1, recipe |-> recipe, panic |-> TRUE, log |-> <<>>]
             ELSE IF ~IsSome(r.res) THEN [stop EXCEPT !.st = st1]
             ELSE Swapped(st1, Unwrap(r.res))))
    ELSE stop

\* TemporalLiquidityBook::attempt -> [st, recipe, panic, log]; recipe is the
\* Option<ExecutionRecipe> returned: None or Some(instructions), log the passes
\* of the loop.
\* The index price given to pick_best_fr_either is the best pool price, the one
\* the loop hands to settle_price; the rollback of an invalid recipe restores
\* the fragments without stashing any.
attempt(st, cap, tie) ==
    Let1(pick_best_fr_either(active_fragments(st), best_pool_price(st, tie)), LAMBDA r0 :
    Let1(pick_active_fr(st, r0), LAMBDA st0 :
         IF ~IsSome(r0.res)
         THEN [st |-> st0, recipe |-> None, panic |-> FALSE, log |-> <<>>]
         ELSE Let1(AttemptLoop(st0, IntermediateRecipe_new(Unwrap(r0.res)),
                               cap.hard, cap, tie), LAMBDA l :
              Let1(ExecutionRecipe_try_from(l.recipe), LAMBDA t :
                   IF l.panic
                   THEN [st |-> l.st, recipe |-> None, panic |-> TRUE, log |-> l.log]
                   ELSE IF t.ok
                   THEN [st |-> l.st, recipe |-> Some(t.instructions), panic |-> FALSE,
                         log |-> l.log]
                   ELSE [st |-> on_recipe_failed(l.st, Unstash),
                         recipe |-> None, panic |-> FALSE, log |-> l.log]))))

\* requiring_settled_state: the book is mutated in Idle and panics otherwise
\* a variant of requiring_settled_state that lets every state through
requiring_settled_state_unchecked(st) == TRUE

requiring_settled_state(st) == st.tag = "Idle"

IdleState_advance_clocks(st, new_time) ==
    [st EXCEPT !.fragments = Chronology_advance_clocks(@, new_time)]

IdleState_add_fragment(st, fr) ==
    [st EXCEPT !.fragments = Chronology_add_fragment(@, fr)]

IdleState_remove_fragment(st, fr) ==
    [st EXCEPT !.fragments = Chronology_remove_fragment(@, fr)]

IdleState_update_pool(st, pool) == [st EXCEPT !.pools = Pools_update_pool(@, pool)]

IdleState_remove_pool(st, pool) == [st EXCEPT !.pools = Pools_remove_pool(@, pool)]

----------------------------------------------------------------------------
(* The inputs of the model                                                 *)

MaxTime == 1

MaxAttempts == 2

\* the changeset of a preview is a Vec: its length is capped
MaxChangeset == 1

Times == 0..MaxTime

Ask1 == SimpleOrderPF(1, "Ask", 4, AbsolutePrice(1, 2), 2, 0, 1, Until(0))

Bid2 == SimpleOrderPF(2, "Bid", 2, AbsolutePrice(1, 1), 1, 3, 1, NoBounds)

Bid3 == SimpleOrderPF(3, "Bid", 2, AbsolutePrice(1, 1), 2, 0, 1, After(2))

FrUniverse == {Ask1, Bid2, Bid3}

Pool1 == SimpleCFMMPool("p1", 10, 10, 997)

Pool2 == SimpleCFMMPool("p2", 6, 3, 997)

PoolUniverse == {Pool1, Pool2}

PoolIds == {p.pool_id : p \in PoolUniverse}

IndexPrices == {None, Some(AbsolutePrice(3, 4))}

StashingOptions == {Unstash} \cup {Stash(<<fr>>) : fr \in FrUniverse}

\* ExecutionCap of the book
execution_cap == [soft |-> 2, hard |-> 3]

NoSnap == IdleStateNew(0)

\* the Idle state a preview was opened from, kept while the preview is open
Snapshot(st, next) ==
    IF next.tag = "Idle" THEN NoSnap
    ELSE IF st.tag = "Idle" THEN st ELSE snap

Did(op, from, res) == [op |-> op, from |-> from, res |-> res]

----------------------------------------------------------------------------
(* Spec: one TLB and its callers                                           *)

DriverIdle ==
    UNCHANGED drvVars

\* an ExternalTLBEvents call: applied in Idle, a panic otherwise; arg is what
\* is recorded of its argument
ExternalWith(op, next, arg) ==
    /\ ~panicked
    /\ IF requiring_settled_state(book)
       THEN /\ book' = next
            /\ panicked' = FALSE
            /\ snap' = NoSnap
       ELSE /\ panicked' = TRUE
            /\ UNCHANGED <<book, snap>>
    /\ last' = Did(op, book.tag, arg)
    /\ UNCHANGED attempts
    /\ DriverIdle

External(op, next) == ExternalWith(op, next, None)

AdvanceClocks ==
    \E t \in Times :
        External("advance_clocks",
                 IF book.tag = "Idle" THEN IdleState_advance_clocks(book, t) ELSE book)

AddFragment ==
    \E fr \in FrUniverse :
        External("add_fragment",
                 IF book.tag = "Idle" THEN IdleState_add_fragment(book, fr) ELSE book)

RemoveFragment ==
    \E fr \in FrUniverse :
        External("remove_fragment",
                 IF book.tag = "Idle" THEN IdleState_remove_fragment(book, fr) ELSE book)

UpdatePool ==
    \E p \in PoolUniverse :
        External("update_pool",
                 IF book.tag = "Idle" THEN IdleState_update_pool(book, p) ELSE book)

RemovePool ==
    \E p \in PoolUniverse :
        External("remove_pool",
                 IF book.tag = "Idle" THEN IdleState_remove_pool(book, p) ELSE book)

\* a call into TLBState that opens or extends a preview
Internal(op, next, res) ==
    /\ ~panicked
    /\ book' = next
    /\ last' = Did(op, book.tag, res)
    /\ snap' = Snapshot(book, next)
    /\ UNCHANGED <<panicked, attempts>>
    /\ DriverIdle

PickBestFrEither ==
    \E ip \in IndexPrices :
        LET r == pick_best_fr_either(active_fragments(book), ip)
        IN  Internal("pick_best_fr_either", pick_active_fr(book, r), r.res)

TryPickFr ==
    \E side \in {"Bid", "Ask"}, ok \in BOOLEAN :
        LET af == active_fragments(book)
            r == try_pick_fr(af, side, IF ok THEN af.bids \cup af.asks ELSE {})
        IN  Internal("try_pick_fr", pick_active_fr(book, r), r.res)

TryPickPool ==
    \E ids \in SUBSET PoolIds :
        LET ps == pools(book)
            r == try_pick_pool_in(ps, {ps.pools[id] : id \in ids \cap DOMAIN ps.pools})
        IN  Internal("try_pick_pool", pick_pool(book, r), r.res)

TakePool ==
    \E pid \in PoolIds :
        LET r == take_pool_in(pools(book), pid)
        IN  Internal("take_pool", pick_pool(book, r), r.res)

PreAddFragment ==
    \E fr \in FrUniverse :
        /\ book.tag = "Preview" => Len(book.inactive_fragments_changeset) < MaxChangeset
        /\ Internal("pre_add_fragment", pre_add_fragment(book, fr), None)

PreAddPool ==
    \E p \in PoolUniverse :
        Internal("pre_add_pool", pre_add_pool(book, p), None)

OnRecipeSucceeded ==
    Internal("on_recipe_succeeded", on_recipe_succeeded(book), None)

OnRecipeFailed ==
    \E opt \in StashingOptions :
        Internal("on_recipe_failed", on_recipe_failed(book, opt), Some(opt))

Attempt ==
    \E tie \in PoolIds :
      \E r \in {attempt(book, execution_cap, tie)} :
        /\ ~panicked
        /\ attempts < MaxAttempts
        /\ attempts' = attempts + 1
        /\ book' = r.st
        /\ panicked' = r.panic
        /\ last' = [op |-> "attempt", from |-> book.tag, res |-> r.recipe, log |-> r.log]
        /\ snap' = Snapshot(book, r.st)
        /\ DriverIdle

\* Executor::new
DriverInit ==
    /\ multi_book = [p \in {"A", "B"} |-> TLBStateNew(0)]
    /\ multi_backlog = [p \in {"A", "B"} |-> <<>>]
    /\ index = [confirmed |-> <<>>, unconfirmed |-> <<>>]
    /\ cache = <<>>
    /\ skip_filter = [buffer |-> <<>>, filter |-> {}]
    /\ pending_effects = None
    /\ focus_set = <<>>
    /\ upstream = 0
    /\ feedback = <<>>
    /\ in_flight = <<>>
    /\ dlast = [op |-> "new", out |-> "", fb |-> None, up |-> None, tried |-> {},
                batch |-> None, mid |-> None]

Init ==
    /\ book = TLBStateNew(0)
    /\ panicked = FALSE
    /\ last = Did("new", "Idle", None)
    /\ snap = NoSnap
    /\ attempts = 0
    /\ DriverInit

Next ==
    \/ AdvanceClocks
    \/ AddFragment
    \/ RemoveFragment
    \/ UpdatePool
    \/ RemovePool
    \/ OnRecipeSucceeded
    \/ OnRecipeFailed
    \/ Attempt

Spec == Init /\ [][Next]_vars

----------------------------------------------------------------------------
(* SpecState: the versioned state of a book under the calls of state.rs    *)

\* a method of IdleState: there is none on the preview states
OnIdle(op, next) ==
    /\ book.tag = "Idle"
    /\ Internal(op, next, None)

IdleAdvanceClocks ==
    \E t \in Times :
        OnIdle("advance_clocks",
               IF book.tag = "Idle" THEN IdleState_advance_clocks(book, t) ELSE book)

IdleAddFragment ==
    \E fr \in FrUniverse :
        OnIdle("add_fragment",
               IF book.tag = "Idle" THEN IdleState_add_fragment(book, fr) ELSE book)

IdleUpdatePool ==
    \E p \in PoolUniverse :
        OnIdle("update_pool",
               IF book.tag = "Idle" THEN IdleState_update_pool(book, p) ELSE book)

NextState ==
    \/ IdleAdvanceClocks
    \/ IdleAddFragment
    \/ IdleUpdatePool
    \/ PickBestFrEither
    \/ TryPickFr
    \/ TryPickPool
    \/ TakePool
    \/ PreAddFragment
    \/ PreAddPool
    \/ OnRecipeSucceeded
    \/ OnRecipeFailed

SpecState == Init /\ [][NextState]_vars

----------------------------------------------------------------------------
(* The execution driver (execution_engine/mod.rs)                          *)

Pairs == {"A", "B"}

\* Baked entity of a pair: an order (a fragment) or a pool, with its version
Ent(kind, e, ver) == [kind |-> kind, e |-> e, ver |-> ver]

OrderIds == <<"o1", "o2", "o3">>

\* Stable::stable_id
stable_id(ent) == IF ent.kind = "order" THEN OrderIds[ent.e.source] ELSE ent.e.pool_id

\* a specialized order: its own ref and the pool it is for
SpecOrd(ref, pool_ref) == [ref |-> ref, pool_ref |-> pool_ref]

\* CircularFilter<128, V>
FILTER_N == 128

CircularFilterNew == [buffer |-> <<>>, filter |-> {}]

\* a variant that never evicts
CircularFilter_add_unbounded(n, f, a) ==
    IF a \in f.filter THEN f
    ELSE [buffer |-> Append(f.buffer, a), filter |-> f.filter \cup {a}]

\* CircularFilter<N, T>::add: filter.insert(a), and when a is new to the set
\* buffer.try_push_back(a); on a full buffer the front is popped, removed from
\* the set, and a pushed
CircularFilter_add_n(n, f, a) ==
    IF a \in f.filter THEN f
    ELSE IF Len(f.buffer) < n
         THEN [buffer |-> Append(f.buffer, a), filter |-> f.filter \cup {a}]
         ELSE [buffer |-> Append(Tail(f.buffer), a),
               filter |-> (f.filter \cup {a}) \ {Head(f.buffer)}]

CircularFilter_add(f, a) == CircularFilter_add_n(FILTER_N, f, a)

\* a variant that finds nothing and removes nothing
CircularFilter_remove_blind(f, a) == [f |-> f, was |-> FALSE]

CircularFilter_remove(f, a) == [f |-> [f EXCEPT !.filter = @ \ {a}], was |-> a \in f.filter]

\* StateIndex: the last confirmed and the last unconfirmed state of each id
IndexNew == [confirmed |-> <<>>, unconfirmed |-> <<>>]

put_confirmed(ix, ent) == [ix EXCEPT !.confirmed = MapPut(@, stable_id(ent), ent)]

put_unconfirmed(ix, ent) == [ix EXCEPT !.unconfirmed = MapPut(@, stable_id(ent), ent)]

get_last_unconfirmed(ix, id) ==
    IF id \in DOMAIN ix.unconfirmed THEN Some(ix.unconfirmed[id]) ELSE None

eliminate(ix, id) ==
    [confirmed |-> MapRemove(ix.confirmed, id), unconfirmed |-> MapRemove(ix.unconfirmed, id)]

\* invalidate_version -> [ix, sid]: the version leaves the index; sid is the
\* stable id it belonged to, if any
invalidate_version(ix, ver) ==
    LET c == {id \in DOMAIN ix.confirmed : ix.confirmed[id].ver = ver}
        u == {id \in DOMAIN ix.unconfirmed : ix.unconfirmed[id].ver = ver}
    IN  [ix |-> [confirmed |-> [id \in DOMAIN ix.confirmed \ c |-> ix.confirmed[id]],
                 unconfirmed |-> [id \in DOMAIN ix.unconfirmed \ u |-> ix.unconfirmed[id]]],
         sid |-> IF c \cup u = {} THEN None ELSE Some(CHOOSE id \in c \cup u : TRUE)]

\* resolve_source_state: the unconfirmed state when there is one, else the confirmed
resolve_source_state(id, ix) ==
    IF id \in DOMAIN ix.unconfirmed THEN Some(ix.unconfirmed[id])
    ELSE IF id \in DOMAIN ix.confirmed THEN Some(ix.confirmed[id])
    ELSE None

\* HotBacklog: a queue of specialized orders
backlog_put(q, o) == IF \E i \in DOMAIN q : q[i].ref = o.ref THEN q ELSE Append(q, o)

backlog_remove(q, ref) == SelectSeq(q, LAMBDA o : o.ref # ref)

backlog_recharge(q, o) == backlog_put(q, o)

\* FocusSet::push_back: a queue without duplicates
focus_push_back(fs, pair) ==
    IF \E i \in DOMAIN fs : fs[i] = pair THEN fs ELSE Append(fs, pair)

\* Ior<T, T>
IorLeft(e) == [ior |-> "Left", old |-> e, new |-> e]

IorRight(e) == [ior |-> "Right", old |-> e, new |-> e]

IorBoth(old, new) == [ior |-> "Both", old |-> old, new |-> new]

\* The executor as a record ex: multi_book, multi_backlog, index, cache,
\* skip_filter, pending_effects, focus_set, and panic (a panic was raised).

\* a variant in which the pairs share one book
on_book_shared(ex, pair, next) ==
    IF requiring_settled_state(ex.multi_book[pair])
    THEN [ex EXCEPT !.multi_book = [p \in DOMAIN ex.multi_book |-> next]]
    ELSE [ex EXCEPT !.panic = TRUE, !.violated = TRUE]

\* an ExternalTLBEvents call on the book of a pair; violated records the panic
\* of requiring_settled_state
on_book(ex, pair, next) ==
    IF requiring_settled_state(ex.multi_book[pair])
    THEN [ex EXCEPT !.multi_book[pair] = next]
    ELSE [ex EXCEPT !.panic = TRUE, !.violated = TRUE]

book_add_fragment(ex, pair, fr) ==
    on_book(ex, pair, IF ex.multi_book[pair].tag = "Idle"
                      THEN IdleState_add_fragment(ex.multi_book[pair], fr)
                      ELSE ex.multi_book[pair])

book_remove_fragment(ex, pair, fr) ==
    on_book(ex, pair, IF ex.multi_book[pair].tag = "Idle"
                      THEN IdleState_remove_fragment(ex.multi_book[pair], fr)
                      ELSE ex.multi_book[pair])

book_update_pool(ex, pair, pool) ==
    on_book(ex, pair, IF ex.multi_book[pair].tag = "Idle"
                      THEN IdleState_update_pool(ex.multi_book[pair], pool)
                      ELSE ex.multi_book[pair])

book_remove_pool(ex, pair, pool) ==
    on_book(ex, pair, IF ex.multi_book[pair].tag = "Idle"
                      THEN IdleState_remove_pool(ex.multi_book[pair], pool)
                      ELSE ex.multi_book[pair])

\* Executor::sync_backlog; upd = [confirmed, created, order]
sync_backlog(ex, pair, upd) ==
    IF upd.created
    THEN IF upd.confirmed
         THEN LET r == CircularFilter_remove(ex.skip_filter, upd.order.ref) IN
              [ex EXCEPT !.skip_filter = r.f,
                         !.multi_backlog[pair] =
                             IF r.was THEN @ ELSE backlog_put(@, upd.order)]
         ELSE [ex EXCEPT !.skip_filter = CircularFilter_add(@, upd.order.ref),
                         !.multi_backlog[pair] = backlog_put(@, upd.order)]
    ELSE [ex EXCEPT !.multi_backlog[pair] = backlog_remove(@, upd.order.ref)]

\* Executor::sync_book
sync_book(ex, pair, tr) ==
    CASE tr.ior = "Left" ->
            IF tr.old.kind = "order" THEN book_remove_fragment(ex, pair, tr.old.e)
            ELSE book_remove_pool(ex, pair, tr.old.e)
      [] tr.ior = "Both" ->
            IF tr.new.kind = "pool" THEN book_update_pool(ex, pair, tr.new.e)
            ELSE IF tr.old.kind = "order"
            THEN Let1(book_remove_fragment(ex, pair, tr.old.e), LAMBDA ex1 :
                      IF ex1.panic THEN ex1 ELSE book_add_fragment(ex1, pair, tr.new.e))
            ELSE [ex EXCEPT !.panic = TRUE]
      [] OTHER ->
            IF tr.new.kind = "order" THEN book_add_fragment(ex, pair, tr.new.e)
            ELSE book_update_pool(ex, pair, tr.new.e)

\* Executor::cache -> [ex, tr]
cache_put(ex, ent) ==
    LET id == stable_id(ent) IN
    [ex |-> [ex EXCEPT !.cache = MapPut(@, id, ent)],
     tr |-> IF id \in DOMAIN ex.cache THEN Some(IorBoth(ex.cache[id], ent))
            ELSE Some(IorRight(ent))]

\* Executor::update_state -> [ex, tr]; upd = [confirmed, ior, ent], a
\* StateUpdate::Transition with ior "Right" (or "Both") or "Left"
update_state(ex, upd) ==
    LET ent == upd.ent
        id == stable_id(ent)
    IN  IF upd.ior = "Left"
        THEN [ex |-> [ex EXCEPT !.index = eliminate(@, id)], tr |-> Some(IorLeft(ent))]
        ELSE IF upd.confirmed
        THEN LET ix1 == put_confirmed(ex.index, ent)
                 lu == get_last_unconfirmed(ix1, id)
                 unconfirmed_state_exists == IsSome(lu) /\ Unwrap(lu).ver = ent.ver
                 r == CircularFilter_remove(ex.skip_filter, ent.ver)
                 ex1 == [ex EXCEPT !.index = ix1, !.skip_filter = r.f]
             IN  IF unconfirmed_state_exists \/ r.was
                 THEN [ex |-> ex1, tr |-> None]
                 ELSE cache_put(ex1, Unwrap(resolve_source_state(id, ix1)))
        ELSE LET ix1 == put_unconfirmed(ex.index, ent)
                 ex1 == [ex EXCEPT !.index = ix1,
                                   !.skip_filter = CircularFilter_add(@, ent.ver)]
             IN  cache_put(ex1, Unwrap(resolve_source_state(id, ix1)))

\* a variant that invalidates no version
invalidate_versions_skipped(ex, pair, versions) == ex

RECURSIVE invalidate_versions(_, _, _)
\* Executor::invalidate_versions over the versions in the order the HashSet
\* yields them
invalidate_versions(ex, pair, versions) ==
    IF versions = <<>> \/ ex.panic THEN ex
    ELSE
    Let1(invalidate_version(ex.index, Head(versions)), LAMBDA r :
         IF ~IsSome(r.sid)
         THEN invalidate_versions(ex, pair, Tail(versions))
         ELSE
         LET sid == Unwrap(r.sid)
             ex1 == [ex EXCEPT !.index = r.ix]
             latest == resolve_source_state(sid, r.ix)
             c == IF IsSome(latest)
                  THEN cache_put(ex1, Unwrap(latest))
                  ELSE [ex |-> [ex1 EXCEPT !.cache = MapRemove(@, sid)],
                        tr |-> IF sid \in DOMAIN ex1.cache
                               THEN Some(IorLeft(ex1.cache[sid])) ELSE None]
         IN  Let1(c, LAMBDA cc :
                  Let1(IF IsSome(cc.tr) THEN sync_book(cc.ex, pair, Unwrap(cc.tr)) ELSE cc.ex,
                       LAMBDA ex2 : invalidate_versions(ex2, pair, Tail(versions)))))

\* the stable id an instruction of a recipe targets
target_id(instr) ==
    IF instr.kind = "Fill" THEN OrderIds[instr.target_fr.source] ELSE instr.target.pool_id

\* Executor::link_recipe panics ("State is inconsistent") when the cache has no
\* entry for a target
link_recipe_panics(ex, instructions) ==
    \E k \in DOMAIN instructions : target_id(instructions[k]) \notin DOMAIN ex.cache

\* a variant that links every instruction with the state of the first target
link_recipe_one_bearer(ex, instructions) ==
    [k \in 1..Len(instructions) |->
        [instr |-> instructions[Len(instructions) + 1 - k],
         bearer |-> ex.cache[target_id(instructions[Len(instructions)])]]]

\* Executor::link_recipe: the instructions popped from the back, each with the
\* cached state of its target as its bearer
link_recipe(ex, instructions) ==
    [k \in 1..Len(instructions) |->
        LET instr == instructions[Len(instructions) + 1 - k]
        IN  [instr |-> instr, bearer |-> ex.cache[target_id(instr)]]]

Updated(ent) == [eff |-> "Updated", ent |-> ent]

Eliminated(ent) == [eff |-> "Eliminated", ent |-> ent]

\* the trade interpreter: one effect per linked instruction, and the versions
\* the transaction spends
trade_interpreter_run(linked) ==
    [effects |->
        [k \in DOMAIN linked |->
            LET l == linked[k] IN
            IF l.instr.kind = "Swap"
            THEN Updated(Ent("pool", l.instr.transition, l.bearer.ver + 1))
            ELSE IF IsSome(l.instr.next_fr)
            THEN Updated(Ent("order", Unwrap(l.instr.next_fr), l.bearer.ver + 3))
            ELSE Eliminated(Ent("order", l.instr.target_fr, l.bearer.ver))],
     consumes |-> {linked[k].bearer.ver : k \in DOMAIN linked}]

\* the interpreter of specialized orders, when it accepts the order: the pool
\* after the order, and the versions the transaction spends
spec_interpreter_try_run(pool_ent, order) ==
    [updated_pool |-> Ent("pool",
                          [pool_ent.e EXCEPT !.reserves_base = @ + 1,
                                             !.reserves_quote = @ + 1],
                          pool_ent.ver + 1),
     consumes |-> {pool_ent.ver, order.ref}]

FromLiquidityBook(pair, effects) ==
    [pair |-> pair, from |-> "book", effects |-> effects, pool |-> None, order |-> None]

FromBacklog(pair, new_pool, order) ==
    [pair |-> pair, from |-> "backlog", effects |-> <<>>,
     pool |-> Some(new_pool), order |-> Some(order)]

\* feedback of the network: Ok(()), or an error that converts to the set of
\* bad versions (in the order the HashSet yields them) or does not convert
FeedbackOk == [ok |-> TRUE, bad |-> None]

FeedbackBad(versions) == [ok |-> FALSE, bad |-> Some(versions)]

FeedbackUnknown == [ok |-> FALSE, bad |-> None]

\* a variant that drops the recorded effects
apply_effects_dropped(ex, effects) == ex

RECURSIVE apply_effects(_, _)
\* "while let Some(effect) = pending_effects.pop()": last to first, each effect
\* an unconfirmed state transition whose resulting Ior is dropped
apply_effects(ex, effects) ==
    IF effects = <<>> THEN ex
    ELSE LET effect == effects[Len(effects)] IN
         Let1(update_state(ex, [confirmed |-> FALSE,
                                ior |-> IF effect.eff = "Updated" THEN "Right" ELSE "Left",
                                ent |-> effect.ent]).ex,
              LAMBDA ex1 : apply_effects(ex1, SubSeq(effects, 1, Len(effects) - 1)))

\* poll_next, the arm of Ok(_)
on_success(ex, pe) ==
    IF pe.from = "book"
    THEN Let1(apply_effects(ex, pe.effects), LAMBDA ex1 :
              [ex1 EXCEPT !.multi_book[pe.pair] = on_recipe_succeeded(@)])
    ELSE update_state(ex, [confirmed |-> FALSE, ior |-> "Right", ent |-> Unwrap(pe.pool)]).ex

Range(xs) == {xs[k] : k \in DOMAIN xs}

\* a variant that invalidates the bad versions before it rolls the book back
on_failure_late_rollback(ex, pe, result) ==
    IF IsSome(result.bad) /\ pe.from = "book"
    THEN Let1(invalidate_versions(ex, pe.pair, Unwrap(result.bad)), LAMBDA e :
              [e EXCEPT !.multi_book[pe.pair] = on_recipe_failed(@, Unstash)])
    ELSE IF pe.from = "book"
    THEN [ex EXCEPT !.multi_book[pe.pair] = on_recipe_failed(@, Unstash)]
    ELSE [ex EXCEPT !.multi_backlog[pe.pair] = backlog_recharge(@, Unwrap(pe.order))]

\* poll_next, the arm of Err(err)
on_failure(ex, pe, result) ==
    IF IsSome(result.bad)
    THEN LET missing_bearers == Unwrap(result.bad)
             ex1 == IF pe.from = "book"
                    THEN [ex EXCEPT !.multi_book[pe.pair] = on_recipe_failed(@, Unstash)]
                    ELSE IF Unwrap(pe.order).ref \in Range(missing_bearers)
                    THEN [ex EXCEPT !.multi_backlog[pe.pair] =
                                        backlog_remove(@, Unwrap(pe.order).ref)]
                    ELSE [ex EXCEPT !.multi_backlog[pe.pair] =
                                        backlog_recharge(@, Unwrap(pe.order))]
         IN  Let1(ex1, LAMBDA e : invalidate_versions(e, pe.pair, missing_bearers))
    ELSE IF pe.from = "book"
    THEN [ex EXCEPT !.multi_book[pe.pair] = on_recipe_failed(@, Unstash)]
    ELSE [ex EXCEPT !.multi_backlog[pe.pair] = backlog_recharge(@, Unwrap(pe.order))]

\* poll_next, an event of the upstream; ev = [pair, entity, upd]
on_upstream(ex, ev) ==
    LET ex1 == IF ev.entity
               THEN Let1(update_state(ex, ev.upd), LAMBDA r :
                         IF IsSome(r.tr) THEN sync_book(r.ex, ev.pair, Unwrap(r.tr)) ELSE r.ex)
               ELSE sync_backlog(ex, ev.pair, ev.upd)
    IN  Let1(ex1, LAMBDA e : [e EXCEPT !.focus_set = focus_push_back(@, ev.pair)])

\* a variant that leaves the pair of an emitted batch out of the focus set
return_to_focus_set_dropped(fs, pair) == fs

\* poll_next, after a batch is recorded: the pair goes back to the focus set, so
\* that its book is attempted again once the batch is settled
return_to_focus_set(fs, pair) == focus_push_back(fs, pair)

RECURSIVE drain_focus_set(_, _, _)
\* poll_next, "while let Some(focus_pair) = self.focus_set.pop_front()"
\* -> [ex, tx, tried]: tx is the transaction returned, if any; tried the pairs
\* whose book was attempted
drain_focus_set(ex, tie, run_ok) ==
    IF ex.focus_set = <<>> \/ ex.panic THEN [ex |-> ex, tx |-> None, tried |-> {}]
    ELSE
    LET focus_pair == Head(ex.focus_set) IN
    Let1(attempt(ex.multi_book[focus_pair], execution_cap, tie), LAMBDA r :
    Let1([ex EXCEPT !.focus_set = Tail(@),
                    !.multi_book[focus_pair] = r.st,
                    !.panic = r.panic], LAMBDA ex1 :
         IF r.panic THEN [ex |-> ex1, tx |-> None, tried |-> {focus_pair}]
         ELSE IF IsSome(r.recipe)
         THEN IF link_recipe_panics(ex1, Unwrap(r.recipe))
              THEN [ex |-> [ex1 EXCEPT !.panic = TRUE], tx |-> None, tried |-> {focus_pair}]
              ELSE LET linked == link_recipe(ex1, Unwrap(r.recipe))
                       t == trade_interpreter_run(linked) IN
                   [ex |-> [ex1 EXCEPT
                              !.pending_effects =
                                  Some(FromLiquidityBook(focus_pair, t.effects)),
                              !.focus_set = return_to_focus_set(@, focus_pair)],
                    tx |-> Some([pair |-> focus_pair, consumes |-> t.consumes,
                                 recipe |-> Unwrap(r.recipe), linked |-> linked]),
                    tried |-> {focus_pair}]
         ELSE
         LET q == ex1.multi_backlog[focus_pair]
             next_order == Head(q)
             ex2 == [ex1 EXCEPT !.multi_backlog[focus_pair] = Tail(@)]
             has_pool == /\ next_order.pool_ref \in DOMAIN ex2.cache
                         /\ ex2.cache[next_order.pool_ref].kind = "pool"
             t == spec_interpreter_try_run(ex2.cache[next_order.pool_ref], next_order)
             rest(e) == Let1(drain_focus_set(e, tie, run_ok), LAMBDA d :
                             [d EXCEPT !.tried = @ \cup {focus_pair}])
         IN  IF q = <<>> THEN rest(ex1)
             ELSE IF has_pool /\ run_ok
             THEN [ex |-> [ex2 EXCEPT
                             !.pending_effects =
                                 Some(FromBacklog(focus_pair, t.updated_pool, next_order)),
                             !.focus_set = return_to_focus_set(@, focus_pair)],
                   tx |-> Some([pair |-> focus_pair, consumes |-> t.consumes,
                                recipe |-> <<>>, linked |-> <<>>]),
                   tried |-> {focus_pair}]
             ELSE rest(ex2)))

\* a variant that never waits for the feedback
awaits_feedback_never(ex, fb) == FALSE

\* poll_next with a pending batch: TRUE when the poll of the feedback channel
\* yields no result (fb empty: the channel is not ready, or it is closed), so
\* that the batch is put back and Pending returned
awaits_feedback(ex, fb) == IsSome(ex.pending_effects) /\ fb = <<>>

\* a variant that ends the stream once its upstream has ended
ends_with_upstream_done(up, done) == ~IsSome(up) /\ done

\* poll_next, the poll of the upstream: "if let Poll::Ready(Some(..))" takes an
\* item and nothing else, so that an upstream that has ended (done) is passed
\* over as one that is not ready is: TRUE when the poll ends the stream
ends_with_upstream(up, done) == FALSE

\* FusedStream::is_terminated
is_terminated(ex) == FALSE

\* one pass of the loop of poll_next -> [ex, out, tx, fb_taken, up_taken, tried,
\* mid]. fb is the content of the feedback channel, up what the poll of the
\* upstream yields (None: not ready, or terminated, which is done), tie and
\* run_ok as above; mid is the executor as the arm of the feedback leaves it.
poll_next(ex, fb, up, done, tie, run_ok) ==
    IF awaits_feedback(ex, fb)
    THEN [ex |-> ex, out |-> "pending", tx |-> None,
          fb_taken |-> FALSE, up_taken |-> FALSE, tried |-> {}, mid |-> None]
    ELSE
    LET taken == IsSome(ex.pending_effects) /\ fb # <<>>
        ex0 == [ex EXCEPT !.pending_effects = None]
        ex1 == IF ~taken THEN ex0
               ELSE IF Head(fb).ok THEN on_success(ex0, Unwrap(ex.pending_effects))
               ELSE on_failure(ex0, Unwrap(ex.pending_effects), Head(fb))
    IN  Let1(ex1, LAMBDA e1 :
        Let1(IF taken THEN Some(e1) ELSE None, LAMBDA mid :
        IF e1.panic
        THEN [ex |-> e1, out |-> "panic", tx |-> None,
              fb_taken |-> taken, up_taken |-> FALSE, tried |-> {}, mid |-> mid]
        ELSE IF IsSome(up)
        THEN Let1(on_upstream(e1, Unwrap(up)), LAMBDA e2 :
                  [ex |-> e2, out |-> IF e2.panic THEN "panic" ELSE "continue", tx |-> None,
                   fb_taken |-> taken, up_taken |-> TRUE, tried |-> {}, mid |-> mid])
        ELSE IF ends_with_upstream(up, done)
        THEN [ex |-> e1, out |-> "end", tx |-> None,
              fb_taken |-> taken, up_taken |-> FALSE, tried |-> {}, mid |-> mid]
        ELSE Let1(drain_focus_set(e1, tie, run_ok), LAMBDA d :
                  [ex |-> d.ex,
                   out |-> IF d.ex.panic THEN "panic"
                           ELSE IF IsSome(d.tx) THEN "tx" ELSE "pending",
                   tx |-> d.tx,
                   fb_taken |-> taken, up_taken |-> FALSE, tried |-> d.tried,
                   mid |-> mid])))

----------------------------------------------------------------------------
(* SpecDriver: the executor, its upstream and the network                  *)

MaxEvents == 4

\* what the upstream can deliver: states of the order o1 and the pool p1 of
\* pair A, of the pool p2 of pair B, and a specialized order for p2
UpstreamEvents ==
    {[pair |-> "A", entity |-> TRUE,
      upd |-> [confirmed |-> c, ior |-> "Right", ent |-> Ent("order", Ask1, 1)]]
        : c \in BOOLEAN}
    \cup {[pair |-> "A", entity |-> TRUE,
           upd |-> [confirmed |-> c, ior |-> "Right", ent |-> Ent("pool", Pool1, 10)]]
        : c \in BOOLEAN}
    \cup {[pair |-> "B", entity |-> TRUE,
           upd |-> [confirmed |-> TRUE, ior |-> "Right", ent |-> Ent("pool", Pool2, 20)]]}
    \cup {[pair |-> "B", entity |-> FALSE,
           upd |-> [confirmed |-> c, created |-> TRUE, order |-> SpecOrd(30, "p2")]]
        : c \in BOOLEAN}

\* the sequences a HashSet of one or two of the versions can be iterated as
BadVersions(S) ==
    {<<a>> : a \in S} \cup {<<x[1], x[2]>> : x \in {y \in S \X S : y[1] # y[2]}}

Results(tx) ==
    {FeedbackOk, FeedbackUnknown} \cup {FeedbackBad(vs) : vs \in BadVersions(tx.consumes)}

Ex ==
    [multi_book |-> multi_book, multi_backlog |-> multi_backlog, index |-> index,
     cache |-> cache, skip_filter |-> skip_filter, pending_effects |-> pending_effects,
     focus_set |-> focus_set, panic |-> FALSE, violated |-> FALSE]

BookIdle ==
    UNCHANGED tlbVars

\* one pass of the loop of Executor::poll_next, the upstream delivering events
PollFrom(events) ==
    \E up \in {None} \cup {Some(ev) : ev \in IF upstream < MaxEvents THEN events ELSE {}},
       tie \in PoolIds, run_ok \in BOOLEAN :
      \E r \in {poll_next(Ex, feedback, up, upstream >= MaxEvents, tie, run_ok)} :
        /\ multi_book' = r.ex.multi_book
        /\ multi_backlog' = r.ex.multi_backlog
        /\ index' = r.ex.index
        /\ cache' = r.ex.cache
        /\ skip_filter' = r.ex.skip_filter
        /\ pending_effects' = r.ex.pending_effects
        /\ focus_set' = r.ex.focus_set
        /\ upstream' = IF r.up_taken THEN upstream + 1 ELSE upstream
        /\ feedback' = IF r.fb_taken THEN Tail(feedback) ELSE feedback
        /\ in_flight' = (IF r.fb_taken THEN Tail(in_flight) ELSE in_flight)
                            \o (IF IsSome(r.tx)
                                THEN <<[tx |-> Unwrap(r.tx), answered |-> FALSE]>>
                                ELSE <<>>)
        /\ dlast' = [op |-> "poll", out |-> r.out,
                     fb |-> IF r.fb_taken THEN Some(Head(feedback)) ELSE None,
                     up |-> IF r.up_taken THEN up ELSE None,
                     tried |-> r.tried,
                     batch |-> IF r.fb_taken THEN pending_effects ELSE None,
                     mid |-> r.mid,
                     violated |-> r.ex.violated]
        /\ book' = book
        /\ panicked' = r.ex.panic
        /\ UNCHANGED <<last, snap, attempts>>

Poll == PollFrom(UpstreamEvents)

\* a poll while the batch is pending and no feedback has come
PollAwaiting ==
    /\ ~panicked
    /\ IsSome(pending_effects) /\ feedback = <<>>
    /\ Poll

\* a poll that finds the feedback of the pending batch
PollFeedback ==
    /\ ~panicked
    /\ IsSome(pending_effects) /\ feedback # <<>>
    /\ Poll

\* a poll with no batch pending
PollFree ==
    /\ ~panicked
    /\ ~IsSome(pending_effects)
    /\ Poll

\* the network answers the oldest transaction it has not answered yet
Network ==
    /\ ~panicked
    /\ \E k \in DOMAIN in_flight :
        /\ ~in_flight[k].answered
        /\ \A j \in 1..(k - 1) : in_flight[j].answered
        /\ \E result \in Results(in_flight[k].tx) :
            /\ feedback' = Append(feedback, result)
            /\ in_flight' = [in_flight EXCEPT ![k].answered = TRUE]
            /\ dlast' = [op |-> "network", out |-> "", fb |-> Some(result),
                         up |-> None, tried |-> {}, batch |-> None, mid |-> None]
    /\ UNCHANGED <<multi_book, multi_backlog, index, cache, skip_filter,
                   pending_effects, focus_set, upstream>>
    /\ BookIdle

NextDriver ==
    \/ PollAwaiting
    \/ PollFeedback
    \/ PollFree
    \/ Network

SpecDriver == Init /\ [][NextDriver]_vars

----------------------------------------------------------------------------
(* SpecFilter: a CircularFilter<3, usize> under add and remove             *)

\* the capacity of the filter of tests::add_check_rotate
FilterCap == 3

MaxElem == 4

FilterElems == 1..MaxElem

\* the elements the filter contains, in the order of the calls of add that
\* put them into it, before the step
AddOrder == IF dlast.op \in {"add", "remove"} THEN dlast.order ELSE <<>>

FilterStep(next, op, a, order) ==
    /\ skip_filter' = next
    /\ dlast' = [op |-> op, arg |-> a,
                 order |-> SelectSeq(order, LAMBDA e : e \in next.filter),
                 full |-> a \notin skip_filter.filter
                              /\ Cardinality(skip_filter.filter) = FilterCap]
    /\ UNCHANGED <<multi_book, multi_backlog, index, cache, pending_effects,
                   focus_set, upstream, feedback, in_flight>>
    /\ BookIdle

FilterAdd ==
    \E a \in FilterElems :
        FilterStep(CircularFilter_add_n(FilterCap, skip_filter, a), "add", a,
                   IF a \in skip_filter.filter THEN AddOrder ELSE Append(AddOrder, a))

FilterRemove ==
    \E a \in FilterElems :
        FilterStep(CircularFilter_remove(skip_filter, a).f, "remove", a,
                   SelectSeq(AddOrder, LAMBDA e : e # a))

NextFilter ==
    \/ FilterAdd
    \/ FilterRemove

SpecFilter == Init /\ [][NextFilter]_vars

----------------------------------------------------------------------------
(* SpecClock: the chronology of one book under its clock                   *)

MaxClock == 3

ClockTimes == 0..MaxClock

Ask4 == SimpleOrderPF(4, "Ask", 3, AbsolutePrice(1, 1), 1, 0, 1, After(1))

ClockFragments == FrUniverse \cup {Ask4}

ClockAdvance ==
    \E t \in ClockTimes :
        ExternalWith("advance_clocks",
                     IF book.tag = "Idle" THEN IdleState_advance_clocks(book, t) ELSE book,
                     Some(t))

ClockAddFragment ==
    \E fr \in ClockFragments :
        ExternalWith("add_fragment",
                     IF book.tag = "Idle" THEN IdleState_add_fragment(book, fr) ELSE book,
                     Some(fr))

NextClock ==
    \/ ClockAdvance
    \/ ClockAddFragment
    \/ RemoveFragment
    \/ PreAddFragment
    \/ OnRecipeSucceeded
    \/ OnRecipeFailed

SpecClock == Init /\ [][NextClock]_vars

----------------------------------------------------------------------------
(* SpecPick: the picks of the best fragment of a side                      *)

Bid5 == SimpleOrderPF(5, "Bid", 2, AbsolutePrice(2, 1), 1, 0, 1, NoBounds)

Bid6 == SimpleOrderPF(6, "Bid", 3, AbsolutePrice(1, 1), 1, 0, 1, NoBounds)

Ask7 == SimpleOrderPF(7, "Ask", 3, AbsolutePrice(1, 2), 1, 0, 1, NoBounds)

PickFragments == {Ask1, Ask4, Ask7, Bid2, Bid5, Bid6}

PickAddFragment ==
    \E fr \in PickFragments :
        ExternalWith("add_fragment",
                     IF book.tag = "Idle" THEN IdleState_add_fragment(book, fr) ELSE book,
                     Some(fr))

\* the index prices pick_best_fr_either is given: none, one below every
\* fragment, one between the asks and the bids, one above the lower bids
PickIndex == IndexPrices \cup {Some(AbsolutePrice(1, 4)), Some(AbsolutePrice(3, 2))}

\* TLBState::pick_best_fr_either, the index price kept in dlast
PickEither ==
    \E ip \in PickIndex :
        \E r \in {pick_best_fr_either(active_fragments(book), ip)} :
            /\ ~panicked
            /\ book' = pick_active_fr(book, r)
            /\ last' = Did("pick_best_fr_either", book.tag, r.res)
            /\ snap' = Snapshot(book, book')
            /\ dlast' = [op |-> "pick_best_fr_either", index_price |-> ip]
            /\ UNCHANGED <<panicked, attempts, multi_book, multi_backlog, index,
                           cache, skip_filter, pending_effects, focus_set,
                           upstream, feedback, in_flight>>

NextPick ==
    \/ PickAddFragment
    \/ PickEither
    \/ TryPickFr
    \/ OnRecipeFailed

SpecPick == Init /\ [][NextPick]_vars

----------------------------------------------------------------------------
(* SpecAttempt: attempts on a book of several asks, bids and pools         *)

Ask11 == SimpleOrderPF(11, "Ask", 8, AbsolutePrice(1, 4), 2, 0, 1, NoBounds)

Bid12 == SimpleOrderPF(12, "Bid", 2, AbsolutePrice(1, 1), 1, 0, 1, NoBounds)

Bid13 == SimpleOrderPF(13, "Bid", 2, AbsolutePrice(1, 1), 1, 0, 1, NoBounds)

Bid14 == SimpleOrderPF(14, "Bid", 1, AbsolutePrice(3, 4), 2, 0, 1, NoBounds)

Ask15 == SimpleOrderPF(15, "Ask", 2, AbsolutePrice(2, 1), 2, 0, 2, NoBounds)

Bid17 == SimpleOrderPF(17, "Bid", 2, AbsolutePrice(1, 1), 1, 0, 3, NoBounds)

AttemptFragments == {Ask11, Bid12, Bid13, Bid14, Ask15, Bid17}

\* the book is filled before the first attempt
AttemptAddFragment ==
    /\ attempts = 0
    /\ \E fr \in AttemptFragments :
        ExternalWith("add_fragment",
                     IF book.tag = "Idle" THEN IdleState_add_fragment(book, fr) ELSE book,
                     Some(fr))

NextAttempt ==
    \/ AttemptAddFragment
    \/ UpdatePool
    \/ Attempt
    \/ OnRecipeSucceeded

SpecAttempt == Init /\ [][NextAttempt]_vars

----------------------------------------------------------------------------
(* SpecPrice: settle_price and fill_from_fragment on overlapping fragments *)

MaxFee == 2

MaxInput == 2

\* the fills of one recipe are capped by the execution units of the book, of
\* which every fragment of the inputs takes one
MaxFills == execution_cap.hard - safe_threshold(execution_cap)

Prices == {AbsolutePrice(0, 1), AbsolutePrice(1, 2), AbsolutePrice(1, 1),
           AbsolutePrice(2, 1)}

PriceFragments(side) ==
    {SimpleOrderPF(IF side = "Ask" THEN 1 ELSE 2, side, input, price, fee, 0, 1, NoBounds) :
        input \in 1..MaxInput, price \in Prices, fee \in 0..MaxFee}

PriceIndex == {None, Some(AbsolutePrice(0, 1)), Some(AbsolutePrice(1, 1)),
               Some(AbsolutePrice(2, 1))}

\* a call of one of the two functions: its arguments and what it returned
PriceStep(op, from, res, fills) ==
    /\ ~panicked
    /\ last' = Did(op, from, res)
    /\ panicked' = ~IsSome(res)
    /\ attempts' = fills
    /\ UNCHANGED <<book, snap>>
    /\ DriverIdle

\* settle_price(ask, bid, index_price) on an ask and a bid that overlap
SettlePrice ==
    /\ last.op = "new"
    /\ \E ask \in PriceFragments("Ask"), bid \in PriceFragments("Bid"), ip \in PriceIndex :
        /\ ask.input = 1
        /\ bid.input = 1
        /\ RLe(ask.price, bid.price)
        /\ PriceStep("settle_price", [ask |-> ask, bid |-> bid, index_price |-> ip],
                     IF settle_price_panics(ask, bid) THEN None
                     ELSE Some(settle_price(ask, bid, ip)), 0)

\* fill_from_fragment(lhs, rhs, matchmaker) with the matchmaker of attempt
FillStep(lhs, rhs, ip, fills) ==
    /\ overlaps(lhs.target.side, lhs.target.price, rhs.price)
    /\ \E res \in {IF fill_from_fragment_panics(lhs, rhs, ip) THEN None
                    ELSE Some([price |-> settle_price(MatchAsk(lhs, rhs),
                                                      MatchBid(lhs, rhs), ip),
                               fill  |-> fill_from_fragment(lhs, rhs, ip)])} :
         PriceStep("fill_from_fragment", [lhs |-> lhs, rhs |-> rhs, index_price |-> ip],
                   res, fills)

\* the first fill of a recipe: the remainder is the whole of the best fragment
FillFirst ==
    /\ last.op = "new"
    /\ \E side \in {"Ask", "Bid"}, ip \in PriceIndex :
         \E fr \in PriceFragments(side), rhs \in PriceFragments(Opposite(side)) :
            FillStep(PartialFill_empty(fr), rhs, ip, 1)

\* a later fill of the recipe: the remainder is the one the last fill left and
\* the index price, the price of a pool no fill touches, is the same
FillNext ==
    /\ last.op = "fill_from_fragment"
    /\ IsSome(last.res)
    /\ ~Unwrap(last.res).fill.rt_terminal
    /\ attempts < MaxFills
    /\ LET rem == Unwrap(last.res).fill.fill_rt IN
       \E rhs \in PriceFragments(Opposite(rem.target.side)) :
            FillStep(rem, rhs, last.from.index_price, attempts + 1)

NextPrice ==
    \/ SettlePrice
    \/ FillFirst
    \/ FillNext

SpecPrice == Init /\ [][NextPrice]_vars

----------------------------------------------------------------------------
(* SpecHot: HotOrderExecutor (spectrum-offchain/src/executor.rs), with its *)
(* backlog held in multi_backlog["A"] and its entity repo in cache         *)

MaxOrders == 3

\* the predicted states an entity is given are capped
MaxPredicted == 2

HotOrders == {SpecOrd(ref, pid) : ref \in 1..MaxOrders, pid \in PoolIds}

HotEntities == {Ent("pool", Pool1, 10), Ent("pool", Pool2, 20)}

\* the outcomes of RunOrder::try_run: Ok, or a RunOrderError
RunResults == {"Ok", "Fatal", "NonFatal"}

\* HotOrderExecutor::try_execute_next -> [backlog, entity_repo, ret, ord, ran]:
\* ord is the order popped, ran tells that try_run was called on it; run is
\* what try_run returns and submit_ok what the network answers
try_execute_next(backlog, entity_repo, run, submit_ok) ==
    IF backlog = <<>>
    THEN [backlog |-> backlog, entity_repo |-> entity_repo, ret |-> FALSE,
          ord |-> None, ran |-> FALSE]
    ELSE
    LET ord == Head(backlog)
        popped == Tail(backlog)
        entity_id == ord.pool_ref
    IN  IF entity_id \notin DOMAIN entity_repo
        THEN [backlog |-> popped, entity_repo |-> entity_repo, ret |-> FALSE,
              ord |-> Some(ord), ran |-> FALSE]
        ELSE
        LET entity == entity_repo[entity_id] IN
        IF run = "Ok"
        THEN IF ~submit_ok
             THEN [backlog |-> backlog_recharge(popped, ord),
                   entity_repo |-> MapRemove(entity_repo, entity_id),
                   ret |-> TRUE, ord |-> Some(ord), ran |-> TRUE]
             ELSE [backlog |-> popped,
                   entity_repo |-> MapPut(entity_repo, entity_id,
                                          spec_interpreter_try_run(entity, ord).updated_pool),
                   ret |-> TRUE, ord |-> Some(ord), ran |-> TRUE]
        ELSE [backlog |-> popped, entity_repo |-> entity_repo, ret |-> TRUE,
              ord |-> Some(ord), ran |-> TRUE]

HotFrame ==
    /\ UNCHANGED <<multi_book, index, skip_filter, pending_effects, focus_set,
                   upstream, feedback, in_flight>>
    /\ BookIdle

\* an order reaches the backlog
HotPut ==
    \E o \in HotOrders :
        /\ multi_backlog' = [multi_backlog EXCEPT !["A"] = backlog_put(@, o)]
        /\ dlast' = [op |-> "put", ord |-> Some(o), run |-> "", ran |-> FALSE, ret |-> FALSE]
        /\ UNCHANGED cache
        /\ HotFrame

\* the entity repo learns the state of an entity from the chain
HotEntity ==
    \E ent \in HotEntities :
        /\ cache' = MapPut(cache, stable_id(ent), ent)
        /\ dlast' = [op |-> "entity", ord |-> None, run |-> "", ran |-> FALSE, ret |-> FALSE]
        /\ UNCHANGED multi_backlog
        /\ HotFrame

TryExecuteNext ==
    \E run \in RunResults, submit_ok \in BOOLEAN :
      \E r \in {try_execute_next(multi_backlog["A"], cache, run, submit_ok)} :
        /\ \A id \in DOMAIN r.entity_repo :
              r.entity_repo[id].ver % 10 <= MaxPredicted
        /\ multi_backlog' = [multi_backlog EXCEPT !["A"] = r.backlog]
        /\ cache' = r.entity_repo
        /\ dlast' = [op |-> "try_execute_next", ord |-> r.ord,
                     run |-> IF r.ran THEN run ELSE "", ran |-> r.ran, ret |-> r.ret]
        /\ HotFrame

NextHot ==
    \/ HotPut
    \/ HotEntity
    \/ TryExecuteNext

SpecHot == Init /\ [][NextHot]_vars

----------------------------------------------------------------------------
(* Properties                                                              *)

ExternalOps ==
    {"advance_clocks", "add_fragment", "remove_fragment", "update_pool", "remove_pool"}

\* what the external mutations can make of an Idle state
ExternalResults(st) ==
    {IdleState_advance_clocks(st, t) : t \in Times}
        \cup {IdleState_add_fragment(st, fr) : fr \in FrUniverse}
        \cup {IdleState_remove_fragment(st, fr) : fr \in FrUniverse}
        \cup {IdleState_update_pool(st, p) : p \in PoolUniverse}
        \cup {IdleState_remove_pool(st, p) : p \in PoolUniverse}

\* C1: an external mutation (advance_clocks, add_fragment, remove_fragment,
\* update_pool, remove_pool) is applied only when the book is Idle; on a book in
\* PartialPreview or Preview the call panics and the book is left as it was.
C1_ExternalOnlyInIdle ==
    [][last'.op \in ExternalOps =>
         IF book.tag = "Idle"
         THEN ~panicked' /\ book' \in ExternalResults(book)
         ELSE panicked' /\ book' = book]_vars

C1_Witness ==
    /\ panicked
    /\ last.op \in ExternalOps
    /\ last.from \in {"PartialPreview", "Preview"}
    /\ book.tag = last.from

FrPickOps == {"pick_best_fr_either", "try_pick_fr"}

PoolPickOps == {"try_pick_pool", "take_pool"}

PreAddOps == {"pre_add_fragment", "pre_add_pool"}

SettleOps == {"on_recipe_succeeded", "on_recipe_failed"}

\* C2: the edges of the versioned state: Idle -> PartialPreview when a fragment or
\* pool is first consumed, and a pick that consumes nothing leaves Idle;
\* Idle/PartialPreview -> Preview on the first pre_add_fragment or pre_add_pool;
\* PartialPreview/Preview -> Idle on commit or rollback; no other edge, and
\* Preview never goes back to PartialPreview.
C2_Edges ==
    [][/\ (book.tag = "Idle" /\ last'.op \in FrPickOps \cup PoolPickOps) =>
              book'.tag = IF IsSome(last'.res) THEN "PartialPreview" ELSE "Idle"
       /\ (book.tag # "Idle" /\ last'.op \in FrPickOps \cup PoolPickOps) =>
              book'.tag = book.tag
       /\ last'.op \in PreAddOps => book'.tag = "Preview"
       /\ last'.op \in SettleOps => book'.tag = "Idle"
       /\ book'.tag # book.tag =>
              \/ book.tag = "Idle" /\ book'.tag = "PartialPreview"
                    /\ last'.op \in FrPickOps \cup PoolPickOps
              \/ book.tag \in {"Idle", "PartialPreview"} /\ book'.tag = "Preview"
                    /\ last'.op \in PreAddOps
              \/ book.tag \in {"PartialPreview", "Preview"} /\ book'.tag = "Idle"
                    /\ last'.op \in SettleOps]_vars

\* C2, as the code has it: the edges above, except that a pool pick on an Idle
\* book opens a PartialPreview whether or not it finds a pool.
C2_EdgesOfCode ==
    [][/\ (book.tag = "Idle" /\ last'.op \in FrPickOps) =>
              book'.tag = IF IsSome(last'.res) THEN "PartialPreview" ELSE "Idle"
       /\ (book.tag = "Idle" /\ last'.op \in PoolPickOps) =>
              book'.tag = "PartialPreview"
       /\ (book.tag # "Idle" /\ last'.op \in FrPickOps \cup PoolPickOps) =>
              book'.tag = book.tag
       /\ last'.op \in PreAddOps => book'.tag = "Preview"
       /\ last'.op \in SettleOps => book'.tag = "Idle"
       /\ book'.tag # book.tag =>
              \/ book.tag = "Idle" /\ book'.tag = "PartialPreview"
                    /\ last'.op \in FrPickOps \cup PoolPickOps
              \/ book.tag \in {"Idle", "PartialPreview"} /\ book'.tag = "Preview"
                    /\ last'.op \in PreAddOps
              \/ book.tag \in {"PartialPreview", "Preview"} /\ book'.tag = "Idle"
                    /\ last'.op \in SettleOps]_vars

\* a pool pick that found no pool, on a book that was Idle
C2_Witness ==
    /\ last.op \in PoolPickOps
    /\ last.from = "Idle"
    /\ last.res = None
    /\ book.tag = "PartialPreview"
    /\ book.consumed_active_fragments = <<>>
    /\ book.pools_preview = book.pools_intact

\* C3: rollback(Unstash) from PartialPreview or Preview yields an Idle state whose
\* fragments (active set, inactive buckets, clock) and pools are those of the
\* Idle state the preview was opened from, whatever picks, pool picks,
\* pre_add_fragment and pre_add_pool calls came in between.
C3_RollbackRestores ==
    [][(last'.op = "on_recipe_failed" /\ last'.res = Some(Unstash)
            /\ book.tag \in {"PartialPreview", "Preview"}) =>
         /\ book'.tag = "Idle"
         /\ book'.fragments = snap.fragments
         /\ book'.pools = snap.pools]_vars

\* a rollback of a Preview that had consumed a fragment and a pool and had
\* pre-added a pool, back onto a non-empty Idle state
C3_Witness ==
    /\ last.op = "on_recipe_failed"
    /\ last.res = Some(Unstash)
    /\ last.from = "Preview"
    /\ book.tag = "Idle"
    /\ book.fragments.active.asks # {}
    /\ book.fragments.inactive # <<>>
    /\ book.pools.pools # <<>>
    /\ book.fragments.time_now > 0

\* the fragments a changeset puts into the bucket of time t
ChangesetAt(cs, t) == {cs[i][2] : i \in {j \in DOMAIN cs : cs[j][1] = t}}

BucketAt(inactive, t) ==
    IF t \in DOMAIN inactive THEN inactive[t].asks \cup inactive[t].bids ELSE {}

\* C4: commit makes the preview the new Idle state: the active set is the active
\* preview, the pools are the pools preview, every pre-added fragment of the
\* future sits in the inactive bucket of its activation time, and the clock is
\* the one the preview was opened at.
C4_CommitInstallsPreview ==
    [][(last'.op = "on_recipe_succeeded" /\ book.tag \in {"PartialPreview", "Preview"}) =>
         /\ book'.tag = "Idle"
         /\ book'.pools = book.pools_preview
         /\ book'.fragments.time_now = snap.fragments.time_now
         /\ IF book.tag = "Preview"
            THEN /\ book'.fragments.active = book.active_fragments_preview
                 /\ \A t \in 0..(MaxTime + 1) :
                        BucketAt(book'.fragments.inactive, t) =
                            BucketAt(snap.fragments.inactive, t)
                                \cup ChangesetAt(book.inactive_fragments_changeset, t)
            ELSE /\ book'.fragments.active = book.fragments_preview.active
                 /\ book'.fragments.inactive = snap.fragments.inactive]_vars

\* a commit of a Preview opened at a clock other than 0 that pre-added a
\* fragment of the future
C4_Witness ==
    /\ last.op = "on_recipe_succeeded"
    /\ last.from = "Preview"
    /\ book.tag = "Idle"
    /\ book.fragments.time_now > 0
    /\ book.fragments.inactive # <<>>
    /\ book.pools.pools # <<>>

\* the transactions emitted for a pair whose feedback the driver has not
\* received yet
Unacknowledged(pair) == {k \in DOMAIN in_flight : in_flight[k].tx.pair = pair}

\* C5: at most one unacknowledged transaction per pair exists at any time: from
\* the emission of a transaction for a pair to the receipt of its feedback the
\* driver emits no further transaction for that pair (nor, with its single slot
\* of pending effects, for any other pair).
C5_OneUnacknowledgedPerPair ==
    /\ \A pair \in Pairs : Cardinality(Unacknowledged(pair)) <= 1
    /\ Len(in_flight) <= 1
    /\ IsSome(pending_effects) <=> in_flight # <<>>
    /\ in_flight # <<>> => in_flight[1].tx.pair = Unwrap(pending_effects).pair

\* the driver was polled with a transaction of pair A unacknowledged, pair A
\* still in the focus set, and emitted nothing
C5_Witness ==
    /\ dlast.op = "poll"
    /\ dlast.out = "pending"
    /\ Unacknowledged("A") # {}
    /\ "A" \in Range(focus_set)
    /\ multi_book["A"].tag \in {"PartialPreview", "Preview"}

\* C6: a new attempt on a book that has returned a recipe and has had neither
\* on_recipe_succeeded nor on_recipe_failed since panics: attempt never runs on a
\* book in PartialPreview or Preview.
C6_AttemptPanicsWhenUnsettled ==
    [][(attempts' = attempts + 1 /\ book.tag \in {"PartialPreview", "Preview"}) =>
         panicked']_vars

\* a second attempt has run on the preview the first one left, without a panic
C6_Witness ==
    /\ last.op = "attempt"
    /\ last.from \in {"PartialPreview", "Preview"}
    /\ book.tag = last.from
    /\ ~panicked

\* C7: a pending batch is never cancelled: while a batch is pending, a poll that
\* finds no feedback message returns Pending with the batch unchanged, takes no
\* event of the upstream (ready or not) and attempts no pair; the batch is
\* cleared only by a poll that takes a feedback message.
C7_PendingBatchWaits ==
    [][/\ (dlast'.op = "poll" /\ IsSome(pending_effects) /\ feedback = <<>>) =>
              /\ dlast'.out = "pending"
              /\ pending_effects' = pending_effects
              /\ upstream' = upstream
              /\ dlast'.up = None
              /\ dlast'.tried = {}
              /\ in_flight' = in_flight
              /\ UNCHANGED <<multi_book, multi_backlog, index, cache, skip_filter,
                             focus_set>>
       /\ (IsSome(pending_effects) /\ pending_effects' # pending_effects) =>
              /\ dlast'.op = "poll"
              /\ IsSome(dlast'.fb)
              /\ dlast'.batch = pending_effects
              /\ feedback # <<>> /\ feedback' = Tail(feedback)]_vars

\* a poll that waited although the upstream had events left to deliver and the
\* focus set was not empty
C7_Witness ==
    /\ dlast.op = "poll"
    /\ dlast.out = "pending"
    /\ IsSome(pending_effects)
    /\ feedback = <<>>
    /\ upstream < MaxEvents
    /\ focus_set # <<>>

IndexIds(ix) == DOMAIN ix.confirmed \cup DOMAIN ix.unconfirmed

IndexVersions(ix) ==
    {ix.confirmed[id].ver : id \in DOMAIN ix.confirmed}
        \cup {ix.unconfirmed[id].ver : id \in DOMAIN ix.unconfirmed}

\* C8: on success feedback for a liquidity-book batch every recorded effect is
\* applied as an unconfirmed transition (an update is the last unconfirmed state
\* of its id in the index, is in the cache, and its version is in the skip
\* filter; an eliminated entity is no longer in the index) and the book of the
\* pair is committed: it is Idle with the preview as its state.
C8_SuccessAppliesEffectsAndCommits ==
    [][(dlast'.op = "poll" /\ IsSome(dlast'.batch) /\ Unwrap(dlast'.batch).from = "book"
            /\ Unwrap(dlast'.fb).ok) =>
         LET pe == Unwrap(dlast'.batch)
             mid == Unwrap(dlast'.mid)
             was == multi_book[pe.pair]
             now == mid.multi_book[pe.pair]
         IN  /\ \A k \in DOMAIN pe.effects :
                   LET ent == pe.effects[k].ent
                       id == stable_id(ent)
                   IN  IF pe.effects[k].eff = "Updated"
                       THEN /\ id \in DOMAIN mid.index.unconfirmed
                            /\ mid.index.unconfirmed[id] = ent
                            /\ id \in DOMAIN mid.cache
                            /\ mid.cache[id] = ent
                            /\ ent.ver \in mid.skip_filter.filter
                       ELSE id \notin IndexIds(mid.index)
             /\ was.tag \in {"PartialPreview", "Preview"}
             /\ now.tag = "Idle"
             /\ now.pools = was.pools_preview
             /\ now.fragments.active =
                    IF was.tag = "Preview" THEN was.active_fragments_preview
                    ELSE was.fragments_preview.active
             /\ \A p \in Pairs \ {pe.pair} : mid.multi_book[p] = multi_book[p]]_vars

\* the success of a batch with an update and an elimination, both of entities
\* the index knew
C8_Witness ==
    /\ dlast.op = "poll"
    /\ IsSome(dlast.batch)
    /\ Unwrap(dlast.batch).from = "book"
    /\ Unwrap(dlast.fb).ok
    /\ \E k \in DOMAIN Unwrap(dlast.batch).effects :
          Unwrap(dlast.batch).effects[k].eff = "Updated"
    /\ \E k \in DOMAIN Unwrap(dlast.batch).effects :
          Unwrap(dlast.batch).effects[k].eff = "Eliminated"
    /\ Unwrap(dlast.mid).multi_book[Unwrap(dlast.batch).pair].tag = "Idle"

InBacklog(q, o) == \E i \in DOMAIN q : q[i] = o

\* C9: on failure feedback a liquidity-book batch is rolled back with
\* on_recipe_failed(Unstash) and a backlog batch's order goes back to the
\* backlog, unless the error converts to a set of bad versions that has the
\* order's own ref, in which case the order is removed from the backlog; when the
\* error converts, every bad version is invalidated (none is left in the
\* index); when it does not, no version is invalidated.
C9_FailureRollsBackAndInvalidates ==
    [][(dlast'.op = "poll" /\ IsSome(dlast'.batch) /\ ~Unwrap(dlast'.fb).ok) =>
         LET pe == Unwrap(dlast'.batch)
             fb == Unwrap(dlast'.fb)
             mid == Unwrap(dlast'.mid)
             bad == IF IsSome(fb.bad) THEN Range(Unwrap(fb.bad)) ELSE {}
         IN  /\ ~mid.panic
             /\ pe.from = "book" =>
                   /\ mid.multi_book[pe.pair].tag = "Idle"
                   /\ mid.multi_backlog = multi_backlog
                   /\ (bad \cap IndexVersions(index) = {}) =>
                         mid.multi_book[pe.pair] =
                             on_recipe_failed(multi_book[pe.pair], Unstash)
             /\ pe.from = "backlog" =>
                   LET order == Unwrap(pe.order) IN
                   IF order.ref \in bad
                   THEN \A i \in DOMAIN mid.multi_backlog[pe.pair] :
                            mid.multi_backlog[pe.pair][i].ref # order.ref
                   ELSE InBacklog(mid.multi_backlog[pe.pair], order)
             /\ IndexVersions(mid.index) = IndexVersions(index) \ bad
             /\ ~IsSome(fb.bad) =>
                   /\ mid.index = index
                   /\ mid.cache = cache
                   /\ mid.skip_filter = skip_filter]_vars

\* the failure of a book batch with a bad version the index had, and the
\* failure of a backlog batch whose order is recharged
C9_Witness ==
    /\ dlast.op = "poll"
    /\ IsSome(dlast.batch)
    /\ ~Unwrap(dlast.fb).ok
    /\ IsSome(Unwrap(dlast.fb).bad)
    /\ Unwrap(dlast.batch).from = "book"
    /\ IndexVersions(Unwrap(dlast.mid).index) # {}
    /\ Unwrap(dlast.mid).multi_book[Unwrap(dlast.batch).pair].tag = "Idle"
    /\ Unwrap(dlast.mid).multi_book[Unwrap(dlast.batch).pair] #
           TLBStateNew(0)

\* C10: every recipe attempt returns is complete and satisfied: it has at least
\* two terminal instructions, and every Fill of it, the one promoted from the
\* remainder included, has added_output >= min_marginal_output of its target.
C10_RecipeCompleteAndSatisfied ==
    (last.op = "attempt" /\ IsSome(last.res)) =>
        LET xs == Unwrap(last.res) IN
        /\ Len(xs) >= 2
        /\ \A i \in DOMAIN xs :
              xs[i].kind = "Fill" =>
                  xs[i].added_output >= xs[i].target_fr.min_marginal_output

\* a recipe whose last Fill is a promoted remainder (the fragment is not used
\* up) and one of whose targets asks for a positive output
C10_Witness ==
    /\ last.op = "attempt"
    /\ IsSome(last.res)
    /\ LET xs == Unwrap(last.res) IN
       /\ xs[Len(xs)].kind = "Fill"
       /\ IsSome(xs[Len(xs)].next_fr)
       /\ \E i \in DOMAIN xs :
             xs[i].kind = "Fill" /\ xs[i].target_fr.min_marginal_output > 0

\* the fragments of both sides of a Fragments
AllOf(frs) == frs.asks \cup frs.bids

\* C11: when the recipe attempt assembled is incomplete or has an unsatisfied
\* fragment, attempt returns no recipe and has rolled the book back: the book is
\* Idle and its fragments and pools are those it had before the attempt, so
\* nothing consumed is missing and no preview is left behind.
C11_FailedAttemptRollsBack ==
    [][(last'.op = "attempt" /\ last'.res = None /\ ~panicked' /\ book.tag = "Idle") =>
         /\ book'.tag = "Idle"
         /\ book'.fragments = book.fragments
         /\ book'.pools = book.pools]_vars

\* an attempt on a book with an ask, a bid and a pool that returned no recipe:
\* a fragment was picked, so a recipe was assembled and rejected
C11_Witness ==
    /\ last.op = "attempt"
    /\ last.res = None
    /\ last.from = "Idle"
    /\ book.tag = "Idle"
    /\ book.fragments.active.asks # {}
    /\ book.fragments.active.bids # {}
    /\ book.pools.pools # <<>>

\* C12: rollback with Stash(xs) yields an Idle state whose active set has none
\* of the fragments of xs (which are retained for a later Unstash).
C12_StashRemovesFromActive ==
    [][(last'.op = "on_recipe_failed" /\ IsSome(last'.res) /\ Unwrap(last'.res).stash
            /\ book.tag \in {"PartialPreview", "Preview"}) =>
         /\ book'.tag = "Idle"
         /\ Range(Unwrap(last'.res).xs) \cap AllOf(book'.fragments.active) = {}]_vars

\* a rollback with Stash(xs) after which a fragment of xs is in the active set
C12_Witness ==
    /\ last.op = "on_recipe_failed"
    /\ IsSome(last.res)
    /\ Unwrap(last.res).stash
    /\ last.from \in {"PartialPreview", "Preview"}
    /\ book.tag = "Idle"
    /\ Range(Unwrap(last.res).xs) \cap AllOf(book.fragments.active) # {}

\* C13: the entries of the inactive-fragments changeset (fragments pre-added
\* during a preview whose activation time is in the future) are preserved across
\* rollback: after it each of them sits in the inactive bucket of its time.
C13_ChangesetSurvivesRollback ==
    [][(last'.op = "on_recipe_failed" /\ book.tag = "Preview") =>
         /\ book'.tag = "Idle"
         /\ \A t \in 0..(MaxTime + 2) :
                ChangesetAt(book.inactive_fragments_changeset, t)
                    \subseteq BucketAt(book'.fragments.inactive, t)]_vars

\* the executor as the pass of poll_next recorded in dlast' found it when it
\* polled the upstream: as the arm of the feedback left it, if it ran
BeforeUpstream ==
    IF IsSome(dlast'.mid) THEN Unwrap(dlast'.mid) ELSE Ex

\* the version an event of the upstream carries
EventVersion(ev) == IF ev.entity THEN ev.upd.ent.ver ELSE ev.upd.order.ref

\* C14: skip-filter suppression: a confirmed update whose version is in the skip
\* filter (an unconfirmed update of that version was processed before) takes the
\* version out of the filter, is recorded as the confirmed state in the index,
\* and causes no second update of the book and the cache (for a specialized
\* order: no second put into the backlog).
C14_ConfirmedAfterUnconfirmedSkipped ==
    [][(/\ dlast'.op = "poll"
        /\ IsSome(dlast'.up)
        /\ Unwrap(dlast'.up).upd.confirmed
        /\ EventVersion(Unwrap(dlast'.up)) \in BeforeUpstream.skip_filter.filter) =>
         LET ev == Unwrap(dlast'.up) IN
         /\ EventVersion(ev) \notin skip_filter'.filter
         /\ dlast'.out = "continue"
         /\ IF ev.entity
            THEN /\ stable_id(ev.upd.ent) \in DOMAIN index'.confirmed
                 /\ index'.confirmed[stable_id(ev.upd.ent)] = ev.upd.ent
                 /\ index'.unconfirmed = BeforeUpstream.index.unconfirmed
                 /\ multi_book' = BeforeUpstream.multi_book
                 /\ cache' = BeforeUpstream.cache
                 /\ multi_backlog' = BeforeUpstream.multi_backlog
            ELSE /\ multi_backlog' = BeforeUpstream.multi_backlog
                 /\ multi_book' = BeforeUpstream.multi_book
                 /\ index' = BeforeUpstream.index
                 /\ cache' = BeforeUpstream.cache]_vars

\* the confirmed update of a specialized order whose unconfirmed update was
\* processed and which has left the backlog since: it is not put again
C14_WitnessOrder ==
    /\ dlast.op = "poll"
    /\ IsSome(dlast.up)
    /\ ~Unwrap(dlast.up).entity
    /\ Unwrap(dlast.up).upd.confirmed
    /\ Unwrap(dlast.up).upd.order.ref \in Range(skip_filter.buffer)
    /\ Unwrap(dlast.up).upd.order.ref \notin skip_filter.filter
    /\ multi_backlog[Unwrap(dlast.up).pair] = <<>>

\* the confirmed update of a pool whose unconfirmed update of the same version
\* was processed: the filter had the version and has it no more
C14_Witness ==
    /\ dlast.op = "poll"
    /\ IsSome(dlast.up)
    /\ Unwrap(dlast.up).entity
    /\ Unwrap(dlast.up).upd.confirmed
    /\ Unwrap(dlast.up).upd.ent.ver \in Range(skip_filter.buffer)
    /\ Unwrap(dlast.up).upd.ent.ver \notin skip_filter.filter
    /\ stable_id(Unwrap(dlast.up).upd.ent) \in DOMAIN index.confirmed

\* C15: immediately after add(x) the filter contains x, whatever calls of add
\* and remove came before (x may have been added and removed before).
C15_AddedIsContained ==
    [][dlast'.op = "add" => dlast'.arg \in skip_filter'.filter]_vars

\* an add(x) after which x is not contained
C15_Witness ==
    /\ dlast.op = "add"
    /\ dlast.arg \notin skip_filter.filter

\* C16: after any calls of add and remove the filter contains at most N
\* elements; an element removed stays out until it is added again; adding a new
\* element while N are contained evicts exactly the one that was put in longest
\* ago and keeps the other N - 1.
C16_CapacityAndEviction ==
    [][dlast'.op \in {"add", "remove"} =>
         /\ Cardinality(skip_filter'.filter) <= FilterCap
         /\ dlast'.op = "remove" => dlast'.arg \notin skip_filter'.filter
         /\ \A e \in FilterElems :
               (e \notin skip_filter.filter /\ ~(dlast'.op = "add" /\ dlast'.arg = e)) =>
                   e \notin skip_filter'.filter
         /\ (dlast'.op = "add" /\ dlast'.arg \notin skip_filter.filter
                /\ Cardinality(skip_filter.filter) = FilterCap) =>
               skip_filter'.filter =
                   (skip_filter.filter \ {Head(AddOrder)}) \cup {dlast'.arg}]_vars

\* an add of a new element to a full filter: N are contained afterwards, the
\* new one among them
C16_Witness ==
    /\ dlast.op = "add"
    /\ dlast.full
    /\ Cardinality(skip_filter.filter) = FilterCap
    /\ dlast.arg \in skip_filter.filter

\* C17: in every reachable state of the book the active set has no fragment
\* whose time bounds do not contain the current clock, whichever operation put
\* the fragment there.
C17_ActiveWithinBounds ==
    \A fr \in AllOf(active_fragments(book)) : contain(fr.bounds, current_time(book))

\* an Idle book whose active set has a fragment whose upper bound is before the
\* clock, put there by add_fragment
C17_Witness ==
    /\ last.op = "add_fragment"
    /\ book.tag = "Idle"
    /\ IsSome(last.res)
    /\ Unwrap(last.res) \in AllOf(book.fragments.active)
    /\ Unwrap(last.res).bounds.kind = "Until"
    /\ Unwrap(last.res).bounds.hi < book.fragments.time_now

\* C18: for any previous clock and any t, advance_clocks(t) moves every inactive
\* fragment whose activation time is <= t into the active set: afterwards no
\* fragment with activation time <= t is left in the inactive map.
C18_AdvanceActivatesAllDue ==
    [][(last'.op = "advance_clocks" /\ ~panicked') =>
         \A k \in DOMAIN book'.fragments.inactive :
             k <= Unwrap(last'.res) => AllOf(book'.fragments.inactive[k]) = {}]_vars

\* after advance_clocks(t) a fragment whose activation time is before t waits
\* in the inactive map
C18_Witness ==
    /\ last.op = "advance_clocks"
    /\ ~panicked
    /\ book.tag = "Idle"
    /\ \E k \in DOMAIN book.fragments.inactive :
          /\ k < book.fragments.time_now
          /\ AllOf(book.fragments.inactive[k]) # {}

\* C19: after advance_clocks(t) the clock is t, every fragment that was active
\* and is at its end of life at t (with_updated_time(t) is EOL) has been dropped,
\* and every fragment of the active set has time bounds that contain t.
C19_AdvanceDropsExpired ==
    [][(last'.op = "advance_clocks" /\ ~panicked') =>
         LET t == Unwrap(last'.res) IN
         /\ book'.tag = "Idle"
         /\ book'.fragments.time_now = t
         /\ \A fr \in AllOf(book.fragments.active) :
               ~contain(fr.bounds, t) => fr \notin AllOf(book'.fragments.active)
         /\ \A fr \in AllOf(book'.fragments.active) : contain(fr.bounds, t)]_vars

\* an advance_clocks that activated the bucket of its time while an active
\* fragment reached its end of life: the ask Until(0) is gone and the ask
\* After(1) is active
C19_Witness ==
    /\ last.op = "advance_clocks"
    /\ ~panicked
    /\ book.tag = "Idle"
    /\ book.fragments.time_now = 1
    /\ Ask4 \in book.fragments.active.asks
    /\ Ask1 \notin book.fragments.active.asks
    /\ Bid2 \in book.fragments.active.bids

\* the fragments of the side of fr in the active set of st
SideOf(st, fr) ==
    IF fr.side = "Bid" THEN active_fragments(st).bids ELSE active_fragments(st).asks

\* C20: a pick of the best fragment returns, from the bid side, a bid whose
\* price is >= the price of every other active bid and, from the ask side, an
\* ask whose price is <= the price of every other active ask; among fragments
\* of the same price the one with the least stable id is returned.
C20_PickReturnsBestPrice ==
    [][(last'.op \in FrPickOps /\ IsSome(last'.res)) =>
         LET fr == Unwrap(last'.res) IN
         /\ fr \in SideOf(book, fr)
         /\ \A o \in SideOf(book, fr) :
               /\ IF fr.side = "Bid" THEN RLe(o.price, fr.price)
                                     ELSE RLe(fr.price, o.price)
               /\ o.price = fr.price => fr.source <= o.source]_vars

\* C20, as the code has it: a pick returns the first fragment of its side in
\* the order of the fragments (price, then stable id), on the bid side too.
C20_PickReturnsFirstOfOrder ==
    [][(last'.op \in FrPickOps /\ IsSome(last'.res)) =>
         LET fr == Unwrap(last'.res) IN
         /\ fr \in SideOf(book, fr)
         /\ \A o \in SideOf(book, fr) : o = fr \/ FrLess(fr, o)]_vars

\* a pick that returned a bid while a bid of a higher price stayed in the
\* active set
C20_Witness ==
    /\ last.op \in FrPickOps
    /\ IsSome(last.res)
    /\ Unwrap(last.res).side = "Bid"
    /\ \E o \in active_fragments(book).bids : RLt(Unwrap(last.res).price, o.price)

----------------------------------------------------------------------------
(* Properties of price settlement and fragment fills                       *)

\* settle_price has returned a price
Settled == last.op = "settle_price" /\ IsSome(last.res)

\* the pivot: the index price truncated into [ask.price, bid.price], or the
\* middle of the two prices when there is no index price
Pivot ==
    LET pa == last.from.ask.price
        pb == last.from.bid.price
        ip == last.from.index_price
        d  == RSub(pb, pa)
    IN  IF IsSome(ip)
        THEN (IF RLt(Unwrap(ip), pa) THEN pa
              ELSE IF RLt(pb, Unwrap(ip)) THEN pb ELSE Unwrap(ip))
        ELSE RAdd(pa, Ratio(d[1], 2 * d[2]))

\* C21: for every ask and bid with ask.price <= bid.price, every index price
\* (or none) and every pair of fees, the price settle_price returns lies in
\* [ask.price, bid.price].
C21_SettledWithinBounds ==
    Settled =>
        /\ RLe(last.from.ask.price, Unwrap(last.res))
        /\ RLe(Unwrap(last.res), last.from.bid.price)

\* a price settled for an index price above the bid's price and unequal fees
C21_Witness ==
    /\ Settled
    /\ RLt(last.from.ask.price, last.from.bid.price)
    /\ IsSome(last.from.index_price)
    /\ RLt(last.from.bid.price, Unwrap(last.from.index_price))
    /\ last.from.ask.fee > last.from.bid.fee
    /\ last.from.bid.fee > 0

\* C22: when ask.fee equals bid.fee, the settled price equals the pivot.
C22_EqualFeesSettleAtPivot ==
    (Settled /\ last.from.ask.fee = last.from.bid.fee) => Unwrap(last.res) = Pivot

\* a price settled for equal fees, with room above the pivot
C22_Witness ==
    /\ Settled
    /\ last.from.ask.fee = last.from.bid.fee
    /\ RLt(Pivot, last.from.bid.price)

\* C23: the settled price is not below the pivot when ask.fee > bid.fee, not
\* above the pivot when ask.fee < bid.fee, and never further than 3/100 of the
\* pivot from the pivot.
C23_BiasTowardLargerFee ==
    Settled =>
        LET settled == Unwrap(last.res)
            diff == IF RLe(Pivot, settled) THEN RSub(settled, Pivot)
                                           ELSE RSub(Pivot, settled)
        IN  /\ last.from.ask.fee > last.from.bid.fee => RLe(Pivot, settled)
            /\ last.from.ask.fee < last.from.bid.fee => RLe(settled, Pivot)
            /\ RLe(diff, RMul(Pivot, Ratio(3, 100)))

\* a price settled strictly below the pivot, for a bid that pays the larger fee
C23_Witness ==
    /\ Settled
    /\ 0 < last.from.ask.fee
    /\ last.from.ask.fee < last.from.bid.fee
    /\ RLt(Unwrap(last.res), Pivot)

\* fill_from_fragment has returned
Filled == last.op = "fill_from_fragment" /\ IsSome(last.res)

\* the two halves of a result: its terminal Fill, and what is either a
\* terminal Fill or the PartialFill that is the remainder
Halves ==
    LET f == Unwrap(last.res).fill
    IN  <<[terminal |-> TRUE, fill |-> f.term_fill_lt],
          [terminal |-> f.rt_terminal, fill |-> f.fill_rt]>>

\* the input a fill leaves to its fragment
RemainingAfter(h) ==
    IF h.terminal THEN h.fill.target_fr.input - h.fill.removed_input
                  ELSE h.fill.remaining_input

\* the output a fill has given to its fragment
OutputAfter(h) ==
    IF h.terminal THEN h.fill.added_output ELSE h.fill.accumulated_output

FillTarget(h) == IF h.terminal THEN h.fill.target_fr ELSE h.fill.target

\* C24: in every result of fill_from_fragment the base consumed from the ask
\* equals the base added to the bid, namely min(supply, demand) with supply
\* the ask's remaining input and demand = floor(bid input * denom / numer) at
\* the settled price; the exhausted side is returned as a terminal Fill and the
\* other one is the remainder, both being terminal when supply = demand.
C24_FillConservesBase ==
    Filled =>
        LET lhs == last.from.lhs
            rhs == last.from.rhs
            price == Unwrap(last.res).price
            f == Unwrap(last.res).fill
            ask_is_lhs == lhs.target.side = "Ask"
            supply == IF ask_is_lhs THEN lhs.remaining_input ELSE rhs.input
            bid_input == IF ask_is_lhs THEN rhs.input ELSE lhs.remaining_input
            bid_output == IF ask_is_lhs THEN 0 ELSE lhs.accumulated_output
            demand == (bid_input * price[2]) \div price[1]
            traded == IF supply < demand THEN supply ELSE demand
            of_ask == IF FillTarget(Halves[1]).side = "Ask" THEN Halves[1] ELSE Halves[2]
            of_bid == IF FillTarget(Halves[1]).side = "Bid" THEN Halves[1] ELSE Halves[2]
        IN  /\ FillTarget(of_ask).side = "Ask"
            /\ FillTarget(of_bid).side = "Bid"
            /\ supply - RemainingAfter(of_ask) = traded
            /\ OutputAfter(of_bid) - bid_output = traded
            /\ f.rt_terminal <=> supply = demand
            /\ supply > demand => FillTarget(Halves[1]).side = "Bid"
            /\ supply < demand => FillTarget(Halves[1]).side = "Ask"
            /\ supply = demand => FillTarget(Halves[1]) = lhs.target

\* a remainder a first fill left, filled again and exhausted before the
\* fragment it met
C24_Witness ==
    /\ Filled
    /\ last.from.lhs.accumulated_output > 0
    /\ ~Unwrap(last.res).fill.rt_terminal
    /\ FillTarget(Halves[1]) = last.from.lhs.target

\* C29: settle_price and fill_from_fragment never panic on the numbers of two
\* overlapping fragments, whatever their fees and prices.
C29_SettlementNeverPanics ==
    last.op \in {"settle_price", "fill_from_fragment"} => ~panicked

\* a price settled for two fragments one of which pays no fee
C29_Witness ==
    /\ Settled
    /\ last.from.ask.fee = 0
    /\ last.from.bid.fee > 0

----------------------------------------------------------------------------
(* Properties of the pools store                                           *)

\* the quality index holds one entry per pool of the primary map, under the
\* pool's quality, and nothing else
IndexMirrorsPools(ps) ==
    /\ \A id \in DOMAIN ps.pools :
          /\ quality(ps.pools[id]) \in DOMAIN ps.quality_index
          /\ ps.quality_index[quality(ps.pools[id])] = id
    /\ \A q \in DOMAIN ps.quality_index :
          /\ ps.quality_index[q] \in DOMAIN ps.pools
          /\ quality(ps.pools[ps.quality_index[q]]) = q

\* C25: the quality index mirrors the primary map of the pools of a settled
\* book: after any sequence of update_pool and remove_pool, and after the
\* commit of a preview in which a pool was picked and its successor pre-added,
\* it has exactly one entry per pool, keyed by the pool's current quality.
C25_QualityIndexMirrorsPools ==
    (book.tag = "Idle" /\ ~panicked) => IndexMirrorsPools(book.pools)

\* a committed recipe that swapped in a pool
C25_Witness ==
    /\ last.op = "on_recipe_succeeded"
    /\ last.from = "Preview"
    /\ book.tag = "Idle"
    /\ \E id \in DOMAIN book.pools.pools : book.pools.pools[id] \notin PoolUniverse

----------------------------------------------------------------------------
(* Properties of the invalidation of versions                              *)

\* the settled book bk holds the entity ent
InBook(bk, ent) ==
    /\ bk.tag = "Idle"
    /\ IF ent.kind = "order"
       THEN \E fr \in AllOf(bk.fragments.active) : fr = ent.e
       ELSE /\ ent.e.pool_id \in DOMAIN bk.pools.pools
            /\ bk.pools.pools[ent.e.pool_id] = ent.e

\* the stable ids the index ix has a state of version ver of
IdsOfVersion(ix, ver) ==
    {id \in DOMAIN ix.confirmed : ix.confirmed[id].ver = ver}
        \cup {id \in DOMAIN ix.unconfirmed : ix.unconfirmed[id].ver = ver}

\* the poll that has just been made took a failure that names one bad version
InvalidatesOne(d) ==
    /\ d.op = "poll"
    /\ IsSome(d.batch)
    /\ ~Unwrap(d.fb).ok
    /\ IsSome(Unwrap(d.fb).bad)
    /\ Len(Unwrap(Unwrap(d.fb).bad)) = 1

\* C26: invalidating a version removes it from the index and re-resolves its
\* stable id. If no state of the id remains, the cache entry of the id is
\* removed and the entity that was cached is removed from the book of the pair;
\* otherwise the cache holds the state that remains (the unconfirmed one if
\* there is one) and the book holds it in place of the state that was cached.
\* A version the index does not know changes neither index, cache nor book.
C26_InvalidateVersion ==
    [][InvalidatesOne(dlast') =>
         LET pe == Unwrap(dlast'.batch)
             ver == Unwrap(Unwrap(dlast'.fb).bad)[1]
             mid == Unwrap(dlast'.mid)
             rolled == IF pe.from = "book"
                       THEN on_recipe_failed(multi_book[pe.pair], Unstash)
                       ELSE multi_book[pe.pair]
             now == mid.multi_book[pe.pair]
             ids == IdsOfVersion(index, ver)
         IN  /\ ~mid.panic
             /\ ids = {} =>
                   /\ mid.index = index
                   /\ mid.cache = cache
                   /\ now = rolled
             /\ \A sid \in ids :
                   /\ IdsOfVersion(mid.index, ver) = {}
                   /\ IF sid \notin IndexIds(mid.index)
                      THEN /\ sid \notin DOMAIN mid.cache
                           /\ sid \in DOMAIN cache => ~InBook(now, cache[sid])
                      ELSE /\ sid \in DOMAIN mid.cache
                           /\ mid.cache[sid] =
                                 (IF sid \in DOMAIN mid.index.unconfirmed
                                  THEN mid.index.unconfirmed[sid]
                                  ELSE mid.index.confirmed[sid])
                           /\ InBook(now, mid.cache[sid])
                           /\ (sid \in DOMAIN cache /\ cache[sid] # mid.cache[sid]) =>
                                 ~InBook(now, cache[sid])]_vars

\* a failure that named the version of the unconfirmed state of a pool whose
\* confirmed state the index still had: the pool of the book is that one again
C26_Witness ==
    /\ InvalidatesOne(dlast)
    /\ LET mid == Unwrap(dlast.mid)
           ver == Unwrap(Unwrap(dlast.fb).bad)[1]
       IN  \E sid \in DOMAIN mid.cache :
              /\ mid.cache[sid].kind = "pool"
              /\ mid.cache[sid].ver + 1 = ver
              /\ sid \in DOMAIN mid.index.confirmed
              /\ sid \notin DOMAIN mid.index.unconfirmed
              /\ InBook(mid.multi_book[Unwrap(dlast.batch).pair], mid.cache[sid])

\* the removal of the only state of an entity: it leaves index, cache and book
C26_WitnessLeft ==
    /\ InvalidatesOne(dlast)
    /\ Unwrap(Unwrap(dlast.fb).bad)[1] = 10
    /\ "p1" \notin IndexIds(index)
    /\ "p1" \notin DOMAIN cache
    /\ multi_book["A"].tag = "Idle"
    /\ "p1" \notin DOMAIN multi_book["A"].pools.pools

\* C28: handling the feedback of a batch of a pair, a success or a failure,
\* with or without bad versions, changes the book and the backlog of that pair
\* only: those of every other pair are as they were.
C28_FeedbackStaysInItsPair ==
    [][(dlast'.op = "poll" /\ IsSome(dlast'.batch)) =>
         LET pe == Unwrap(dlast'.batch)
             mid == Unwrap(dlast'.mid)
         IN  \A p \in Pairs \ {pe.pair} :
                /\ mid.multi_book[p] = multi_book[p]
                /\ mid.multi_backlog[p] = multi_backlog[p]]_vars

\* a failure whose bad version was invalidated and synced into the book of
\* its pair, while the book of the other pair held a pool or a fragment
C28_Witness ==
    /\ dlast.op = "poll"
    /\ IsSome(dlast.batch)
    /\ ~Unwrap(dlast.fb).ok
    /\ IsSome(Unwrap(dlast.fb).bad)
    /\ LET mid == Unwrap(dlast.mid)
           pe == Unwrap(dlast.batch)
       IN  /\ \E v \in Range(Unwrap(Unwrap(dlast.fb).bad)) :
                 \E sid \in DOMAIN mid.cache : mid.cache[sid].ver + 1 = v
           /\ \E p \in Pairs \ {pe.pair} : mid.multi_book[p] # TLBStateNew(0)

----------------------------------------------------------------------------
(* Properties of the executor as a stream                                  *)

\* the upstream has delivered all it had and has ended
UpstreamEnded == upstream >= MaxEvents

\* C27: the stream of the executor never ends: a poll returns a transaction or
\* Pending, never the end of the stream, and is_terminated is false; once the
\* upstream has ended a poll still takes and handles the feedback of the pending
\* batch, and a poll that returns Pending while no batch awaits its feedback has
\* drained the focus set, while one that returns a transaction has recorded its
\* batch.
C27_StreamNeverEnds ==
    [][dlast'.op = "poll" =>
         /\ dlast'.out \in {"tx", "pending", "continue", "panic"}
         /\ ~is_terminated(Ex)
         /\ UpstreamEnded =>
               /\ dlast'.out # "continue"
               /\ (IsSome(pending_effects) /\ feedback # <<>>) =>
                     /\ IsSome(dlast'.fb)
                     /\ dlast'.fb = Some(Head(feedback))
                     /\ feedback' = Tail(feedback)
                     /\ IsSome(dlast'.mid)
               /\ (dlast'.out = "pending" /\ ~(IsSome(pending_effects) /\ feedback = <<>>)) =>
                     focus_set' = <<>>
               /\ dlast'.out = "tx" =>
                     /\ IsSome(pending_effects')
                     /\ in_flight' # <<>>]_vars

\* after the end of the upstream, a poll that took the feedback of the pending
\* batch and went on to the focus set, where it made the next transaction
C27_Witness ==
    /\ UpstreamEnded
    /\ dlast.op = "poll"
    /\ ~IsSome(dlast.up)
    /\ IsSome(dlast.fb)
    /\ dlast.out = "tx"
    /\ IsSome(pending_effects)

----------------------------------------------------------------------------
(* Properties of HotOrderExecutor                                          *)

\* C30: in try_execute_next an order whose run fails with a NonFatal error is
\* returned to the backlog, and only an order whose run fails with a Fatal
\* error is discarded.
C30_NonFatalReturnsOrder ==
    (dlast.op = "try_execute_next" /\ dlast.ran /\ dlast.run # "Ok") =>
        (InBacklog(multi_backlog["A"], Unwrap(dlast.ord)) <=> dlast.run = "NonFatal")

\* an order discarded for a fatal error, while another one waits
C30_Witness ==
    /\ dlast.op = "try_execute_next"
    /\ dlast.ran
    /\ dlast.run = "Fatal"
    /\ multi_backlog["A"] # <<>>
    /\ ~InBacklog(multi_backlog["A"], Unwrap(dlast.ord))

----------------------------------------------------------------------------
(* Properties of pick_best_fr_either                                       *)

\* the bid of the highest price, and among those the one of the least source
BestBidByPrice(S) ==
    CHOOSE b \in S : \A o \in S :
        RLt(o.price, b.price) \/ (o.price = b.price /\ b.source <= o.source)

\* what a call of pick_best_fr_either on the active fragments af with the
\* index price ip is to return (res) and to leave (left), bid and ask being
\* the best fragments of the two sides
PickedEither(af, ip, res, left, bid, ask) ==
    CASE af.bids # {} /\ af.asks # {} ->
            LET bid_is_underpriced == IsSome(ip) /\ RLt(bid.price, Unwrap(ip))
                ask_is_overpriced == IsSome(ip) /\ RLt(Unwrap(ip), ask.price)
            IN  IF (weight(bid) >= weight(ask) /\ ~bid_is_underpriced) \/ ask_is_overpriced
                THEN res = Some(bid) /\ left.asks = af.asks /\ left.bids = af.bids \ {bid}
                ELSE res = Some(ask) /\ left.bids = af.bids /\ left.asks = af.asks \ {ask}
      [] af.bids # {} ->
            res = Some(bid) /\ left.asks = {} /\ left.bids = af.bids \ {bid}
      [] af.asks # {} ->
            res = Some(ask) /\ left.bids = {} /\ left.asks = af.asks \ {ask}
      [] OTHER -> res = None /\ left = af

\* C31: pick_best_fr_either with both sides non-empty returns the best bid
\* exactly when (the bid is at least as heavy as the ask and not below the
\* index price) or the ask is above the index price, and the best ask
\* otherwise; the side of the fragment not returned is unchanged; with one
\* side empty the best of the other side is returned; with both empty nothing
\* is returned and nothing changes. The best bid is the bid of the highest
\* price, the best ask the ask of the lowest price.
C31_PickEitherBestOfSides ==
    [][last'.op = "pick_best_fr_either" =>
         LET af == active_fragments(book) IN
         /\ PickedEither(af, dlast'.index_price, last'.res, active_fragments(book'),
                         BestBidByPrice(af.bids), BTreeFirst(af.asks))
         /\ (~IsSome(last'.res) => book' = book)]_vars

\* C31, as the code has it: the same choice between the sides, the best of a
\* side being the first fragment in the order of the fragments.
C31_PickEitherFirstOfSides ==
    [][last'.op = "pick_best_fr_either" =>
         LET af == active_fragments(book) IN
         /\ PickedEither(af, dlast'.index_price, last'.res, active_fragments(book'),
                         BTreeFirst(af.bids), BTreeFirst(af.asks))
         /\ (~IsSome(last'.res) => book' = book)]_vars

\* an ask returned although the bid is as heavy, because the bid is below the
\* index price, the bids left as they were
C31_Witness ==
    /\ last.op = "pick_best_fr_either"
    /\ IsSome(dlast.index_price)
    /\ IsSome(last.res)
    /\ Unwrap(last.res).side = "Ask"
    /\ \E b \in active_fragments(book).bids :
          /\ weight(b) >= weight(Unwrap(last.res))
          /\ RLt(b.price, Unwrap(dlast.index_price))
          /\ ~RLt(Unwrap(dlast.index_price), Unwrap(last.res).price)

----------------------------------------------------------------------------
(* Properties of the recipes of attempt                                    *)

\* attempt returned a recipe
Recipe == last.op = "attempt" /\ IsSome(last.res)

\* the positions of the swaps in a sequence of instructions
SwapsOf(ins) == {i \in 1..Len(ins) : ins[i].kind = "Swap"}

\* C32: a recipe returned by attempt contains at most one Swap; a Swap is the
\* second-to-last instruction, the last instruction is the Fill of the
\* fragment that was the remainder when the pool was picked, every Fill of a
\* counter-fragment precedes the Swap, the input of the Swap is the remaining
\* input of the remainder and the added_output of the last Fill is the output
\* accumulated from fragments plus the output of the Swap.
C32_SwapClosesRecipe ==
    Recipe =>
        LET ins == Unwrap(last.res)
            n == Len(ins)
            picked == last.log[Len(last.log)]
        IN  /\ Cardinality(SwapsOf(ins)) <= 1
            /\ \A i \in SwapsOf(ins) :
                  /\ i = n - 1
                  /\ picked.kind = "pool"
                  /\ ins[n].kind = "Fill"
                  /\ ins[n].target_fr = picked.rem.target
                  /\ \A j \in 1..n :
                        (ins[j].kind = "Fill" /\ ins[j].target_fr # picked.rem.target)
                            => j < i
                  /\ ins[i].target = picked.with
                  /\ ins[i].input = picked.rem.remaining_input
                  /\ ins[n].added_output = picked.rem.accumulated_output + ins[i].output

\* a recipe Fill, Swap, Fill: a counter-fragment filled, then the rest of the
\* remainder swapped in a pool
C32_Witness ==
    /\ Recipe
    /\ Len(Unwrap(last.res)) = 3
    /\ Unwrap(last.res)[1].kind = "Fill"
    /\ Unwrap(last.res)[2].kind = "Swap"
    /\ Unwrap(last.res)[2].input < Unwrap(last.res)[3].target_fr.input
    /\ Unwrap(last.res)[2].input > 0
    /\ last.log[2].rem.accumulated_output > 0
    /\ last.log[1].rem.target = Unwrap(last.res)[3].target_fr

\* the passes of the last attempt
Passes == IF last.op = "attempt" THEN last.log ELSE <<>>

RECURSIVE CostOf(_)
\* the cost of the counter-fragments consumed in a sequence of passes
CostOf(log) ==
    IF log = <<>> THEN 0
    ELSE (IF Head(log).kind = "fragment" THEN Head(log).with.cost_hint ELSE 0)
         + CostOf(Tail(log))

\* the test of try_pick_fr in attempt, at a pass
PassesTest(p) ==
    /\ overlaps(p.rem.target.side, p.rem.target.price, p.with.price)
    /\ p.with.cost_hint <= p.units

\* C33: during attempt a counter-fragment is consumed only when
\* execution_units_left > hard - soft, its price overlaps the price of the
\* remainder and its marginal_cost_hint <= execution_units_left;
\* execution_units_left starts at hard and decreases by the cost of each
\* consumed counter-fragment, so it never goes below zero and the costs of the
\* counter-fragments of a recipe sum to at most hard; a fragment that fails
\* the test stays in the active set.
C33_CounterFragmentsWithinCap ==
    \A k \in 1..Len(Passes) :
        LET p == Passes[k]
            left == execution_cap.hard - CostOf(SubSeq(Passes, 1, k))
        IN  /\ p.units = execution_cap.hard - CostOf(SubSeq(Passes, 1, k - 1))
            /\ left >= 0
            /\ p.kind = "fragment" =>
                  /\ p.units > execution_cap.hard - execution_cap.soft
                  /\ PassesTest(p)
                  /\ p.with.side # p.rem.target.side
            /\ p.kind = "rejected" =>
                  /\ ~PassesTest(p)
                  /\ p.with \in SideOf(book, p.with)

\* two counter-fragments consumed and a third left in the active set, the
\* units left being at the threshold
C33_Witness ==
    /\ Recipe
    /\ Len(Passes) >= 2
    /\ Passes[1].kind = "fragment"
    /\ Passes[2].kind = "fragment"
    /\ CostOf(Passes) = execution_cap.soft
    /\ SideOf(book, Passes[2].with) # {}

\* a counter-fragment left in the active set for its cost
C33_WitnessRejected ==
    /\ Len(Passes) >= 2
    /\ Passes[Len(Passes)].kind = "rejected"
    /\ Passes[Len(Passes)].with.cost_hint > Passes[Len(Passes)].units

----------------------------------------------------------------------------
(* Properties of the snapshot kept under a preview                         *)

\* C34: while the TLB is in PartialPreview or Preview the state before the
\* attempt is kept intact: in Preview, fragments_intact and pools_intact are
\* the fragments and pools of the Idle state the preview was opened from,
\* whatever was picked or pre-added since; in PartialPreview, pools_intact is
\* the pools of that Idle state, and the active fragments left together with
\* the consumed ones are its active fragments.
C34_SnapshotIntact ==
    /\ book.tag = "Preview" =>
          /\ book.fragments_intact = snap.fragments
          /\ book.pools_intact = snap.pools
    /\ book.tag = "PartialPreview" =>
          /\ book.pools_intact = snap.pools
          /\ FragmentsInsertPopped(book.fragments_preview.active,
                                   book.consumed_active_fragments)
                = snap.fragments.active
          /\ book.fragments_preview.inactive = snap.fragments.inactive
          /\ book.fragments_preview.time_now = snap.fragments.time_now

\* a Preview reached through a PartialPreview, whose preview differs from the
\* intact state in its fragments and in its pools
C34_Witness ==
    /\ book.tag = "Preview"
    /\ last.from = "PartialPreview"
    /\ book.active_fragments_preview # book.fragments_intact.active
    /\ book.pools_preview # book.pools_intact
    /\ book.fragments_intact.active.asks # {}
    /\ book.pools_intact.pools # <<>>

\* a PartialPreview with a fragment consumed and a pool picked
C34_WitnessPartial ==
    /\ book.tag = "PartialPreview"
    /\ book.consumed_active_fragments # <<>>
    /\ book.pools_preview # book.pools_intact

----------------------------------------------------------------------------
(* Properties of the driver and the state of its books                     *)

\* the pending batch is a batch of the liquidity book of the pair
PendingOnBook(pe, pair) ==
    IsSome(pe) /\ Unwrap(pe).from = "book" /\ Unwrap(pe).pair = pair

\* C35: the TLB of a pair is outside Idle only while the pending batch is a
\* liquidity-book batch of that pair; every book is in Idle once the arm of the
\* feedback is done, the rollback of a failure coming before the invalidation
\* of the bad versions, so that the upstream events and the attempts of the
\* same poll find the books in Idle, and no poll runs into the panic of
\* requiring_settled_state.
C35_BooksIdleUnlessPending ==
    /\ ~panicked =>
          \A pair \in Pairs :
              multi_book[pair].tag # "Idle" => PendingOnBook(pending_effects, pair)
    /\ dlast.op = "poll" =>
          /\ ~dlast.violated
          /\ IsSome(dlast.mid) =>
                \A pair \in Pairs : Unwrap(dlast.mid).multi_book[pair].tag = "Idle"

\* the feedback of a failed book batch names bad versions of which one is
\* cached: the book is rolled back, then synced
C35_Witness ==
    /\ dlast.op = "poll"
    /\ IsSome(dlast.batch)
    /\ Unwrap(dlast.batch).from = "book"
    /\ IsSome(dlast.fb)
    /\ IsSome(Unwrap(dlast.fb).bad)
    /\ Unwrap(dlast.mid).cache # cache
    /\ ~panicked

\* the pools the book of a pair holds are the pools the cache of ex holds
\* under their stable ids
BookMirrorsCache(ex, pair) ==
    LET held == pools(ex.multi_book[pair]).pools IN
    \A id \in DOMAIN held :
        /\ id \in DOMAIN ex.cache
        /\ ex.cache[id].kind = "pool"
        /\ ex.cache[id].e = held[id]

\* the success feedback of a backlog batch was handled by the last poll
BacklogSucceeded ==
    /\ dlast.op = "poll"
    /\ IsSome(dlast.batch)
    /\ Unwrap(dlast.batch).from = "backlog"
    /\ Unwrap(dlast.fb).ok

\* C36: after the success feedback of a backlog batch the TLB of the pair
\* holds the updated pool of that batch; whenever no batch is pending, the
\* pool a TLB holds for a stable id is the state the cache holds for it.
C36_BookHoldsCachedPool ==
    /\ BacklogSucceeded =>
          LET mid == Unwrap(dlast.mid)
              pair == Unwrap(dlast.batch).pair
              new_pool == Unwrap(Unwrap(dlast.batch).pool)
          IN  /\ mid.cache[stable_id(new_pool)] = new_pool
              /\ pools(mid.multi_book[pair]).pools[stable_id(new_pool)] = new_pool.e
    /\ (~IsSome(pending_effects) /\ ~panicked) =>
          \A pair \in Pairs : BookMirrorsCache(Ex, pair)

\* a backlog batch succeeded and the cache holds its updated pool
C36_Witness ==
    /\ BacklogSucceeded
    /\ ~panicked
    /\ LET new_pool == Unwrap(Unwrap(dlast.batch).pool) IN
       Unwrap(dlast.mid).cache[stable_id(new_pool)] = new_pool

----------------------------------------------------------------------------
(* Properties of the choice of the best pool                               *)

\* the pools of a state, when they are two or more of distinct quality
DistinctPools(st) ==
    LET ps == pools(st).pools IN
    /\ Cardinality(DOMAIN ps) >= 2
    /\ \A a, b \in DOMAIN ps : a # b => quality(ps[a]) # quality(ps[b])

\* the pool of the highest quality among the pools of a state
HighestQuality(st) ==
    LET ps == pools(st).pools IN
    ps[CHOOSE id \in DOMAIN ps : \A o \in DOMAIN ps : quality(ps[o]) <= quality(ps[id])]

\* the first pool try_pick_pool tests: the one a test that accepts every pool
\* returns
FirstTested(st) ==
    try_pick_pool_in(pools(st), Range(pools(st).pools)).res

\* C37: best_pool_price and try_pick_pool agree on the best pool: with two or
\* more pools of distinct quality, the static price best_pool_price reports is
\* that of the pool of the highest quality, which is the first pool
\* try_pick_pool tests.
C37_BestPoolAgrees ==
    (~panicked /\ DistinctPools(book)) =>
        \A tie \in PoolIds :
            /\ FirstTested(book) = Some(HighestQuality(book))
            /\ best_pool_price(book, tie) = Some(static_price(HighestQuality(book)))

\* an attempt on a book of two pools of distinct quality and price swapped in
\* one of them
C37_Witness ==
    /\ Recipe
    /\ SwapsOf(Unwrap(last.res)) # {}
    /\ DistinctPools(book)
    /\ \E a, b \in DOMAIN pools(book).pools :
          static_price(pools(book).pools[a]) # static_price(pools(book).pools[b])

\* what holds of the code: try_pick_pool tests the pool of the highest quality
\* first, and best_pool_price reports the price of the pool of the lowest one
C37_BestPoolPriceOfLowest ==
    (~panicked /\ DistinctPools(book)) =>
        \A tie \in PoolIds :
            /\ FirstTested(book) = Some(HighestQuality(book))
            /\ \A id \in DOMAIN pools(book).pools :
                  best_pool_price(book, tie) = Some(static_price(pools(book).pools[id]))
                      => \A o \in DOMAIN pools(book).pools :
                            quality(pools(book).pools[id]) <= quality(pools(book).pools[o])

----------------------------------------------------------------------------
(* Properties of the quote side of a match                                 *)

\* the quote a match took from its bid and the quote it gave to its ask
QuoteOfMatch ==
    LET lhs == last.from.lhs
        rhs == last.from.rhs
        ask_is_lhs == lhs.target.side = "Ask"
        of_ask == IF FillTarget(Halves[1]).side = "Ask" THEN Halves[1] ELSE Halves[2]
        of_bid == IF FillTarget(Halves[1]).side = "Bid" THEN Halves[1] ELSE Halves[2]
    IN  [removed |-> (IF ask_is_lhs THEN rhs.input ELSE lhs.remaining_input)
                        - RemainingAfter(of_bid),
         credited |-> OutputAfter(of_ask)
                        - (IF ask_is_lhs THEN lhs.accumulated_output ELSE 0)]

\* C38: in every match of a fragment with a fragment the quote removed from
\* the bid is the quote credited to the ask, in each of the six cases of
\* fill_from_fragment.
C38_FillConservesQuote ==
    Filled => QuoteOfMatch.removed = QuoteOfMatch.credited

\* a bid remainder whose demand equals the supply of the ask it meets
C38_Witness ==
    /\ Filled
    /\ last.from.lhs.target.side = "Bid"
    /\ Unwrap(last.res).fill.rt_terminal
    /\ QuoteOfMatch.credited > 0

\* what holds of the code: quote is conserved in every case but that of a bid
\* remainder whose demand equals the supply, where the bid gives up all it has
\* left and the ask is credited the supply at the settled price, rounded down
C38_QuoteLostOnEqualBid ==
    Filled =>
        IF last.from.lhs.target.side = "Bid" /\ Unwrap(last.res).fill.rt_terminal
        THEN QuoteOfMatch.credited <= QuoteOfMatch.removed
        ELSE QuoteOfMatch.removed = QuoteOfMatch.credited

----------------------------------------------------------------------------
(* Properties of link_recipe                                               *)

\* the last poll returned the transaction of a recipe of the book
Linked ==
    /\ dlast.op = "poll"
    /\ dlast.out = "tx"
    /\ in_flight[Len(in_flight)].tx.recipe # <<>>

\* the recipe read in the order ord, linked[k] being the instruction ord[k]
LinkedAs(recipe, linked, ord(_)) ==
    /\ Len(linked) = Len(recipe)
    /\ \A k \in 1..Len(recipe) :
          /\ linked[k].instr = recipe[ord(k)]
          /\ linked[k].bearer = cache[target_id(recipe[ord(k)])]

\* C39: link_recipe returns one linked instruction per instruction of the
\* recipe, in the order of the recipe, each with the bearer the cache holds for
\* the stable id of its target.
C39_LinkedInOrder ==
    Linked =>
        LET tx == in_flight[Len(in_flight)].tx IN
        LinkedAs(tx.recipe, tx.linked, LAMBDA k : k)

\* what holds of the code: the linked instructions are those of the recipe
\* from the last to the first, each with the bearer of its target
C39_LinkedInReverse ==
    Linked =>
        LET tx == in_flight[Len(in_flight)].tx IN
        LinkedAs(tx.recipe, tx.linked, LAMBDA k : Len(tx.recipe) + 1 - k)

\* a recipe of a swap and a fill, of two targets with two bearers, linked
C39_Witness ==
    /\ Linked
    /\ LET tx == in_flight[Len(in_flight)].tx IN
       /\ Len(tx.recipe) >= 2
       /\ tx.recipe[1] # tx.recipe[2]
       /\ tx.linked[1].bearer # tx.linked[2].bearer

----------------------------------------------------------------------------
(* SpecLive: the executor polled until it rests, every transaction of its  *)
(* accepted by the network                                                 *)

\* the network accepts the oldest transaction it has not answered yet
NetworkOk ==
    /\ ~panicked
    /\ \E k \in DOMAIN in_flight :
        /\ ~in_flight[k].answered
        /\ \A j \in 1..(k - 1) : in_flight[j].answered
        /\ feedback' = Append(feedback, FeedbackOk)
        /\ in_flight' = [in_flight EXCEPT ![k].answered = TRUE]
        /\ dlast' = [op |-> "network", out |-> "", fb |-> Some(FeedbackOk),
                     up |-> None, tried |-> {}, batch |-> None, mid |-> None]
    /\ UNCHANGED <<multi_book, multi_backlog, index, cache, skip_filter,
                   pending_effects, focus_set, upstream>>
    /\ BookIdle

\* a second ask of pair A, the order o2
Ask18 == SimpleOrderPF(2, "Ask", 2, AbsolutePrice(1, 4), 1, 0, 1, NoBounds)

\* what the upstream delivers: the confirmed states of two asks and the pool
\* of pair A, of the pool of pair B and of a specialized order for it
LiveEvents ==
    {[pair |-> "A", entity |-> TRUE,
      upd |-> [confirmed |-> TRUE, ior |-> "Right", ent |-> e]]
        : e \in {Ent("order", Ask1, 1), Ent("order", Ask18, 5), Ent("pool", Pool1, 10)}}
    \cup {[pair |-> "B", entity |-> TRUE,
           upd |-> [confirmed |-> TRUE, ior |-> "Right", ent |-> Ent("pool", Pool2, 20)]]}
    \cup {[pair |-> "B", entity |-> FALSE,
           upd |-> [confirmed |-> TRUE, created |-> TRUE, order |-> SpecOrd(30, "p2")]]}

\* a poll while the batch is pending and no feedback has come
LivePollAwaiting ==
    /\ ~panicked
    /\ IsSome(pending_effects) /\ feedback = <<>>
    /\ PollFrom(LiveEvents)

\* a poll that finds the feedback of the pending batch
LivePollFeedback ==
    /\ ~panicked
    /\ IsSome(pending_effects) /\ feedback # <<>>
    /\ PollFrom(LiveEvents)

\* a poll with no batch pending
LivePollFree ==
    /\ ~panicked
    /\ ~IsSome(pending_effects)
    /\ PollFrom(LiveEvents)

NextLive ==
    \/ LivePollAwaiting
    \/ LivePollFeedback
    \/ LivePollFree
    \/ NetworkOk

\* the wakers of the feedback channel and of the upstream have the stream polled
\* again whenever a poll has something to do, and the network answers
SpecLive ==
    /\ Init
    /\ [][NextLive]_vars
    /\ WF_vars(LivePollFeedback)
    /\ WF_vars(LivePollFree)
    /\ WF_vars(NetworkOk)

\* no batch is pending, no pair is in focus and no book has a recipe to give
Quiescent ==
    /\ ~IsSome(pending_effects)
    /\ focus_set = <<>>
    /\ \A p \in Pairs, tie \in PoolIds :
          ~IsSome(attempt(multi_book[p], execution_cap, tie).recipe)

\* C40: when every transaction is answered with success and the upstream
\* delivers no more, the executor comes to rest and stays there: no batch is
\* pending, the focus set is empty and no book of a pair returns a recipe.
C40_ReachesQuiescence ==
    <>[]Quiescent

\* the poll that takes the success of a batch of the book, attempts the pair
\* again, finds no recipe and rests, the upstream having ended
C40_Witness ==
    /\ UpstreamEnded
    /\ Quiescent
    /\ dlast.op = "poll"
    /\ dlast.out = "pending"
    /\ dlast.fb = Some(FeedbackOk)
    /\ dlast.tried # {}

\* the poll that takes the success of a batch of the book of pair A and, the
\* pair being back in the focus set, emits the next batch of the same book
C40_WitnessRequeued ==
    /\ dlast.op = "poll"
    /\ dlast.out = "tx"
    /\ dlast.fb = Some(FeedbackOk)
    /\ Unwrap(dlast.batch).pair = "A"
    /\ in_flight[Len(in_flight)].tx.pair = "A"
    /\ in_flight[Len(in_flight)].tx.recipe # <<>>

====
